---- MODULE Spec2Model ----
(***************************************************************************)
(* Replay engine of debug-agent-cli (src/src/replay.ts): Replay.run,       *)
(* Replay.replayEvent, Replay.stop and the instrumentation adapter.        *)
(*                                                                         *)
(* A tab handle is the (1-based) index of the newtab event that created    *)
(* it; 0 stands for null/undefined.  A pageId of "" stands for an absent   *)
(* pageId (the code tests event.pageId for truthiness).                    *)
(***************************************************************************)
EXTENDS Integers, Sequences, FiniteSets, TLC

VARIABLES
    events, speed, instr, urlOverride,   \* inputs: recording.events, options.speed
                                         \* (in tenths), instrumentation source,
                                         \* options.urlOverride (NoUrl if unset)
    navError,                            \* environment: the kind of message a
                                         \* failing page.goto / reload carries
    pc, i, delay, result,                \* position of run() and its locals
    rejected, returned,                  \* how run() settled: an error is pending /
                                         \* <<finalResults>> of the returned context
    browser, context,                    \* this.browser / this.context are non-null
    browserOpen, ctxOpen,                \* the browser / context they refer to is open
    pageMap, page,                       \* run()'s pageMap and first tab
    closedPages, pageUrls,               \* per tab handle: isClosed(), url()
    cdpSessions, fi,                     \* this.cdpSessions, finally's iterator
    pendingHooksValue, pendingHooks,
    finalResults,
    stopped, spc, si,                    \* this.stopped, position of stop(), its iterator
    faults, stops,                       \* failures injected / stop() calls so far
    log,                                 \* calls, hook invocations and waits, in order
    compiled,                            \* the result of
                                         \* tryCompileInstrumentation(instr)
    newConditions, presetName,           \* BrowserRecorder (src/src/recorder.ts):
                                         \* the argument and the result of
                                         \* detectNetworkConditionsChange
    \* a capture session: BrowserRecorder and the record command (src/src/cli.ts)
    hasBrowser,                          \* context.browser() gave a browser (not null)
    tabs,                                \* the browser's tabs, in order of creation:
                                         \* "open" / "closed"
    pageSignals,                         \* tabs whose context "page" signal is pending
    setups,                              \* the setupPageTracking calls, in order
    trackedPages, pages, currentPageId,  \* this.trackedPages, this.pages (a Map, in
                                         \* insertion order), this.currentPageId
    recSessions,                         \* keys of the recorder's this.cdpSessions
    isRecording, browserClosedCallback,  \* this.isRecording, callback registered
    currentNetworkPreset, currentNetworkConditions,
    recEvents,                           \* this.recording.events
    clock,                               \* Date.now(); it advances when the
                                         \* environment acts
    cliPc,                               \* position of the record action
    disconnect,                          \* the "disconnected" handler: position
                                         \* and its wasRecording
    timers,                              \* pending setTimeout(callback, 100)
    resolved,                            \* browserClosedPromise is resolved
    stopPc,                              \* per caller: position of stopRecording
    written,                             \* completed fs.writeFile calls
    exited,                              \* the record command's process is gone
    loadState,                           \* per setupPageTracking call: lastUrl,
                                         \* isInitialNavigation, lastLoadTime
    loadCalls,                           \* the calls of the "load" handler, in
                                         \* order of their signals
    sent,                                \* per key of this.cdpSessions: the last
                                         \* Network.emulateNetworkConditions sent
    requests                             \* what the extension asked for, and what
                                         \* came of it

vars == <<events, speed, instr, urlOverride, navError, pc, i, delay, result, rejected,
          returned, browser, context, browserOpen, ctxOpen, pageMap, page,
          closedPages, pageUrls, cdpSessions, fi, pendingHooksValue,
          pendingHooks, finalResults, stopped, spc, si, faults, stops, log,
          compiled, newConditions, presetName,
          hasBrowser, tabs, pageSignals, setups, trackedPages, pages,
          currentPageId, recSessions, isRecording, browserClosedCallback,
          currentNetworkPreset, currentNetworkConditions, recEvents, clock,
          cliPc, disconnect, timers, resolved, stopPc, written, exited,
          loadState, loadCalls, sent, requests>>

(***************************************************************************)
(* Bounds                                                                  *)
(***************************************************************************)
\* a scenario is a recording plus the failures and stop() calls the
\* environment adds to its replay: events + failures + stops <= MaxScenario
MaxScenario == 3
MaxPaceEvents == 3

(***************************************************************************)
(* Program constants                                                       *)
(***************************************************************************)
MaxWaitMs == 3000
MinSpeedTenths == 1
EmptyResult == 0

HookNames == {"setup", "onBeforeEvent", "onAfterEvent", "onComplete"}

Min(a, b) == IF a < b THEN a ELSE b
Max(a, b) == IF a > b THEN a ELSE b

(***************************************************************************)
(* JS Map (insertion ordered) as a sequence of [id, h] entries             *)
(***************************************************************************)
MapHas(m, id) == \E k \in DOMAIN m : m[k].id = id

MapGet(m, id) ==
    IF MapHas(m, id) THEN m[CHOOSE k \in DOMAIN m : m[k].id = id].h ELSE 0

MapSet(m, id, h) ==
    IF MapHas(m, id)
    THEN [k \in DOMAIN m |-> IF m[k].id = id THEN [id |-> id, h |-> h] ELSE m[k]]
    ELSE Append(m, [id |-> id, h |-> h])

MapDelete(m, id) == SelectSeq(m, LAMBDA e : e.id # id)

MapValues(m) == [k \in DOMAIN m |-> m[k].h]

(***************************************************************************)
(* Log of everything the run does to the outside: automation calls,        *)
(* hook invocations and pacing waits.                                      *)
(***************************************************************************)
Entry(k, ev, op, pg, ok, v) ==
    [k |-> k, ev |-> ev, op |-> op, pg |-> pg, ok |-> ok, v |-> v]

Call(ev, op, pg, ok) == Entry("call", ev, op, pg, ok, 0)
Hook(ev, op, pg, ok) == Entry("hook", ev, op, pg, ok, 0)


(***************************************************************************)
(* Instrumentation adapter.  An instrumentation source is                  *)
(*   [shape |-> "absent"]       no instrumentation code was set            *)
(*   [shape |-> "syntaxError"]  the source does not evaluate               *)
(*   [shape |-> "falsy"]        evaluates to 0, null, "" ...               *)
(*   [shape |-> "number"]       evaluates to a truthy non-object           *)
(*   [shape |-> "object", names |-> S]   object whose function-valued      *)
(*                                       hook properties are S             *)
(*   [shape |-> "factory", onMock |-> r, onReal |-> r]  a function; r is   *)
(*        what it does when called with the mock / a real tab handle:      *)
(*        [res |-> "throw"], [res |-> "prim"] or                           *)
(*        [res |-> "hooks", names |-> S]                                   *)
(* A set of hook names stands for an InstrumentationHooks record; the      *)
(* empty set also stands for an undefined pendingHooks (every use is       *)
(* this.pendingHooks?.name).                                               *)
(***************************************************************************)
EmptyObject == [shape |-> "object", names |-> {}]

\* replay.ts 251-262: hooksValue starts as {} and stays {} when there is no
\* code or when evaluating it throws
CompileHooksValue(src) ==
    IF src.shape \in {"absent", "syntaxError"} THEN EmptyObject ELSE src

\* truthiness of the evaluated value (if (hooksValue), if (this.pendingHooksValue))
Truthy(value) == value.shape # "falsy"

NormalizeObjectUnchecked(value) == HookNames

NormalizeObject(value) ==
    IF value.shape = "object" THEN value.names ELSE {}

NormalizeToHooks(value, isMock) ==
    IF value.shape = "factory"
    THEN LET r == IF isMock THEN value.onMock ELSE value.onReal
         IN  IF r.res = "hooks" THEN r.names ELSE {}
    ELSE NormalizeObject(value)

(***************************************************************************)
(* Pacing (replay.ts 286-287, 345-347).  speed is held in tenths; the      *)
(* quotient delayRaw / max(0.1, speed) is the rational 10*delayRaw / s.    *)
(* Math.round(x) = floor(x + 1/2).                                         *)
(***************************************************************************)
MathRound(num, den) == (2 * num + den) \div (2 * den)

DelayRaw(evs, k) ==
    IF k + 1 \in DOMAIN evs THEN evs[k + 1].timestamp - evs[k].timestamp ELSE 0

EffectiveSpeed(s) == Max(MinSpeedTenths, s)

Delay(evs, k, s) == MathRound(10 * DelayRaw(evs, k), EffectiveSpeed(s))

ActualDelayUnclamped(d) == d

ActualDelay(d) == Min(d, MaxWaitMs)

\* the wait performed after event k: 0 stands for "no setTimeout at all"
PacingWait(evs, k, d) ==
    IF d > 0 /\ k < Len(evs) THEN ActualDelay(d) ELSE 0

(***************************************************************************)
(* Tab resolution                                                          *)
(***************************************************************************)
HookPageFirst(ev, m, first) == first

\* replay.ts 292 / 330: event.pageId ? pageMap.get(event.pageId) : page
HookPage(ev, m, first) ==
    IF ev.pageId # "" THEN MapGet(m, ev.pageId) ELSE first

ResolvePageOrFirst(ev, m) ==
    IF MapHas(m, ev.pageId) THEN MapGet(m, ev.pageId)
    ELSE IF Len(m) > 0 THEN m[1].h ELSE 0

\* replay.ts 462, 515, ...: event.pageId ? pageMap.get(event.pageId)
\*                                       : Array.from(pageMap.values())[0]
ResolvePage(ev, m) ==
    IF ev.pageId # "" THEN MapGet(m, ev.pageId)
    ELSE IF Len(m) > 0 THEN m[1].h ELSE 0

\* replay.ts 353-357
ActivePages(m, closed) == SelectSeq(MapValues(m), LAMBDA h : h \notin closed)

PageForCompleteOpenOnly(m, closed, first) ==
    LET act == ActivePages(m, closed)
    IN  IF Len(act) > 0 THEN act[Len(act)] ELSE 0

PageForCompleteFirst(m, closed, first) ==
    LET act == ActivePages(m, closed)
    IN  IF Len(act) > 0 THEN act[1] ELSE first

PageForComplete(m, closed, first) ==
    LET act == ActivePages(m, closed)
    IN  IF Len(act) > 0 THEN act[Len(act)] ELSE first

(***************************************************************************)
(* Replay.replayEvent (replay.ts 433-608) as a function of the event, its  *)
(* index idx, the engine state st and the environment's choice f: the      *)
(* f-th automation call the event makes fails (0: none does).  A call on   *)
(* a closed tab, or on a closed context, fails whatever f is.              *)
(* st = [pageMap, closed, sessions, context, ctxOpen, urls, override,      *)
(*       offline, err]                                                     *)
(* The outcome says whether replayEvent threw, what it returned (0 for     *)
(* null), the automation calls it made and the state it left.              *)
(***************************************************************************)
Outcome(st, threw, res, calls) ==
    [threw |-> threw, result |-> res, calls |-> calls,
     pageMap |-> st.pageMap, closed |-> st.closed,
     sessions |-> st.sessions, urls |-> st.urls]

HasData(ev, field) == field \in DOMAIN ev.data

(***************************************************************************)
(* URL strings.  A string is held by its parts as written: scheme (without *)
(* the colon, "" when the text has none), host, port, path, query (with    *)
(* its "?") and hash (with its "#").  new URL(text) throws for a text      *)
(* without a scheme and for an http(s) text without a host; .origin is     *)
(* scheme://host[:port] with a default port left out for http(s) and the   *)
(* string "null" for any other scheme; .pathname of an http(s) URL with    *)
(* an empty path is "/"; .search and .hash are empty for a lone "?" / "#".  *)
(***************************************************************************)
Url(scheme, host, port, path, query, hash) ==
    [scheme |-> scheme, host |-> host, port |-> port, path |-> path,
     query |-> query, hash |-> hash]

AboutBlank == Url("about", "", "", "blank", "", "")
NoUrl == Url("", "", "", "", "", "")

SpecialSchemes == {"http", "https"}

DefaultPort(scheme) == IF scheme = "http" THEN "80" ELSE "443"

Parses(u) == u.scheme # "" /\ (u.scheme \in SpecialSchemes => u.host # "")

Pathname(u) == IF u.scheme \in SpecialSchemes /\ u.path = "" THEN "/" ELSE u.path

Search(u) == IF u.query = "?" THEN "" ELSE u.query

Hash(u) == IF u.hash = "#" THEN "" ELSE u.hash

\* origin + pathname + search + hash as a string
OriginPlus(base, pathname, search, hash) ==
    IF base.scheme \in SpecialSchemes
    THEN Url(base.scheme, base.host,
             IF base.port = DefaultPort(base.scheme) THEN "" ELSE base.port,
             pathname, search, hash)
    ELSE Url("", "", "", "null" \o pathname, search, hash)

\* the serialisation of a parsed URL (page.url() after a navigation to it)
Href(u) == Url(u.scheme, u.host,
               IF u.scheme \in SpecialSchemes /\ u.port = DefaultPort(u.scheme)
               THEN "" ELSE u.port,
               Pathname(u), u.query, u.hash)

ReplaceBaseUrlOriginOnly(originalUrl, newBaseUrl) ==
    IF originalUrl = NoUrl \/ originalUrl = AboutBlank
    THEN originalUrl
    ELSE IF ~Parses(originalUrl) \/ ~Parses(newBaseUrl)
    THEN originalUrl
    ELSE OriginPlus(newBaseUrl, "/", "", "")

\* replay.ts 415-431
ReplaceBaseUrl(originalUrl, newBaseUrl) ==
    IF originalUrl = NoUrl \/ originalUrl = AboutBlank
    THEN originalUrl
    ELSE IF ~Parses(originalUrl) \/ ~Parses(newBaseUrl)
    THEN originalUrl
    ELSE OriginPlus(newBaseUrl, Pathname(originalUrl), Search(originalUrl),
                    Hash(originalUrl))

\* replay.ts 441-449
ReplayNewtab(ev, idx, f, st) ==
    IF ~st.context
    THEN Outcome(st, TRUE, 0, <<>>)
    ELSE IF ~st.ctxOpen \/ f = 1
    THEN Outcome(st, TRUE, 0, <<Call(idx, "newPage", 0, FALSE)>>)
    ELSE [Outcome(st, FALSE, idx, <<Call(idx, "newPage", idx, TRUE)>>)
            EXCEPT !.pageMap = IF ev.pageId # ""
                               THEN MapSet(st.pageMap, ev.pageId, idx)
                               ELSE st.pageMap,
                   !.urls = [h \in DOMAIN st.urls \cup {idx} |->
                               IF h = idx THEN AboutBlank ELSE st.urls[h]]]

\* replay.ts 450-460
ReplayClosetab(ev, idx, f, st) ==
    LET p == IF ev.pageId # "" THEN MapGet(st.pageMap, ev.pageId) ELSE 0
    IN  IF p = 0
        THEN Outcome(st, FALSE, 0, <<>>)
        ELSE [Outcome(st, FALSE, 0, <<Call(idx, "close", p, f # 1)>>)
                EXCEPT !.closed = IF f # 1 THEN st.closed \cup {p} ELSE st.closed,
                       !.pageMap = MapDelete(st.pageMap, ev.pageId)]

\* replay.ts 463-472: the target of a navigation event
TargetUrl(ev, st) ==
    LET url == IF HasData(ev, "url") THEN ev.data.url ELSE NoUrl
    IN  IF url # NoUrl /\ url # AboutBlank /\ st.override # NoUrl
        THEN ReplaceBaseUrl(url, st.override)
        ELSE url

NavigationGoto == "goto"

NavigationReload == "reload"

AlwaysSameUrl(current, url) == TRUE

\* replay.ts 478, 481: current !== url / current === url
SameUrl(current, url) == current = url

\* replay.ts 479-493: page.reload() on a refresh of the current URL,
\* page.goto(url) otherwise
NavigationCall(navigationType, current, url) ==
    IF navigationType = "refresh" /\ SameUrl(current, url)
    THEN NavigationReload ELSE NavigationGoto

\* the message of the error a navigation call rejects with: a closed tab
\* and an invalid URL have messages of their own, an offline-emulated tab
\* gives net::ERR_INTERNET_DISCONNECTED, an injected failure gives the
\* environment's kind (st.err)
NavigationError(op, p, url, st) ==
    IF p \in st.closed THEN "closed"
    ELSE IF op = NavigationGoto /\ ~Parses(url) THEN "invalid"
    ELSE IF p \in st.offline THEN "connectivity"
    ELSE st.err

\* replay.ts 496-502: isOfflineError
IsOfflineError(message, p, st) == message = "connectivity"

\* replay.ts 504-508: what the catch block prints
Report(idx, p, message, st) ==
    Entry("report", idx,
          IF IsOfflineError(message, p, st) THEN "expected" ELSE "error",
          p, TRUE, 0)

\* p.goto(url, ...) / p.reload(...): the log keeps the URL goto is given
NavCall(idx, op, p, ok, url) ==
    Entry("call", idx, op, p, ok, IF op = NavigationGoto THEN url ELSE NoUrl)

\* replay.ts 461-513
ReplayNavigation(ev, idx, f, st) ==
    LET p == ResolvePage(ev, st.pageMap)
        url == TargetUrl(ev, st)
        navigationType == IF HasData(ev, "navigationType")
                          THEN ev.data.navigationType ELSE ""
    IN  IF p # 0 /\ url # NoUrl /\ url # AboutBlank
           /\ (navigationType = "refresh" \/ ~SameUrl(st.urls[p], url))
        THEN LET op == NavigationCall(navigationType, st.urls[p], url)
                 ok == /\ p \notin st.closed /\ p \notin st.offline /\ f # 1
                       /\ op = NavigationGoto => Parses(url)
             IN  IF ok
                 THEN [Outcome(st, FALSE, 0, <<NavCall(idx, op, p, TRUE, url)>>)
                         EXCEPT !.urls = IF op = NavigationGoto
                                         THEN [st.urls EXCEPT ![p] = Href(url)]
                                         ELSE st.urls]
                 ELSE Outcome(st, FALSE, 0,
                              <<NavCall(idx, op, p, FALSE, url),
                                Report(idx, p, NavigationError(op, p, url, st), st)>>)
        ELSE Outcome(st, FALSE, 0, <<>>)

\* replay.ts 514-524
ReplayClick(ev, idx, f, st) ==
    LET p == ResolvePage(ev, st.pageMap)
    IN  IF p # 0 /\ HasData(ev, "x") /\ HasData(ev, "y")
        THEN IF p \in st.closed \/ f = 1
             THEN Outcome(st, TRUE, 0, <<Call(idx, "mouse.move", p, FALSE)>>)
             ELSE Outcome(st, f = 2, 0, <<Call(idx, "mouse.move", p, TRUE),
                                          Call(idx, "mouse.click", p, f # 2)>>)
        ELSE Outcome(st, FALSE, 0, <<>>)

\* replay.ts 525-541: a failing fill is swallowed
ReplayInput(ev, idx, f, st) ==
    LET p == ResolvePage(ev, st.pageMap)
    IN  IF p # 0 /\ HasData(ev, "value")
           /\ (HasData(ev, "id") \/ HasData(ev, "name"))
        THEN Outcome(st, FALSE, 0,
                     <<Call(idx, "fill", p, p \notin st.closed /\ f # 1)>>)
        ELSE Outcome(st, FALSE, 0, <<>>)

\* replay.ts 542-561: keydown and scroll make one call each, which may throw
ReplayOneCall(ev, idx, f, st, field, op) ==
    LET p == ResolvePage(ev, st.pageMap)
        ok == p \notin st.closed /\ f # 1
    IN  IF p # 0 /\ HasData(ev, field)
        THEN Outcome(st, ~ok, 0, <<Call(idx, op, p, ok)>>)
        ELSE Outcome(st, FALSE, 0, <<>>)

\* replay.ts 562-575: a failing resize is swallowed
ReplayViewportResize(ev, idx, f, st) ==
    LET p == ResolvePage(ev, st.pageMap)
    IN  IF p # 0 /\ HasData(ev, "width") /\ HasData(ev, "height")
        THEN Outcome(st, FALSE, 0,
                     <<Call(idx, "setViewportSize", p, p \notin st.closed /\ f # 1)>>)
        ELSE Outcome(st, FALSE, 0, <<>>)

\* replay.ts 576-604: a session is [sid, pg], sid the index of the event
\* that created it; every failure is swallowed
SessionCall(idx, op, sess, ok) == Entry("call", idx, op, sess.pg, ok, sess.sid)

ReplayNetworkConditions(ev, idx, f, st) ==
    LET p == ResolvePage(ev, st.pageMap)
        key == ev.pageId
        open == p \notin st.closed /\ st.ctxOpen
    IN  IF p # 0 /\ HasData(ev, "conditions")
        THEN IF MapHas(st.sessions, key)
             THEN LET s == MapGet(st.sessions, key)
                  IN  Outcome(st, FALSE, 0,
                        <<SessionCall(idx, "emulateNetworkConditions", s,
                                      s.pg \notin st.closed /\ st.ctxOpen /\ f # 1)>>)
             ELSE IF ~st.context
             THEN Outcome(st, FALSE, 0, <<>>)
             ELSE LET s == [sid |-> idx, pg |-> p]
                      made == [Outcome(st, FALSE, 0, <<>>)
                                 EXCEPT !.sessions = MapSet(st.sessions, key, s)]
                  IN  IF ~open \/ f = 1
                      THEN Outcome(st, FALSE, 0,
                                   <<SessionCall(idx, "newCDPSession", s, FALSE)>>)
                      ELSE IF f = 2
                      THEN [made EXCEPT !.calls =
                              <<SessionCall(idx, "newCDPSession", s, TRUE),
                                SessionCall(idx, "Network.enable", s, FALSE)>>]
                      ELSE [made EXCEPT !.calls =
                              <<SessionCall(idx, "newCDPSession", s, TRUE),
                                SessionCall(idx, "Network.enable", s, TRUE),
                                SessionCall(idx, "emulateNetworkConditions", s, f # 3)>>]
        ELSE Outcome(st, FALSE, 0, <<>>)

ReplayUnhandledThrows(ev, idx, f, st) == Outcome(st, TRUE, 0, <<>>)

\* an event type without a case in the switch: no call, returns null
ReplayUnhandled(ev, idx, f, st) == Outcome(st, FALSE, 0, <<>>)

ReplayEvent(ev, idx, f, st) ==
    CASE ev.type = "newtab" -> ReplayNewtab(ev, idx, f, st)
      [] ev.type = "closetab" -> ReplayClosetab(ev, idx, f, st)
      [] ev.type = "navigation" -> ReplayNavigation(ev, idx, f, st)
      [] ev.type = "click" -> ReplayClick(ev, idx, f, st)
      [] ev.type = "input" -> ReplayInput(ev, idx, f, st)
      [] ev.type = "keydown" -> ReplayOneCall(ev, idx, f, st, "key", "keyboard.press")
      [] ev.type = "scroll" -> ReplayOneCall(ev, idx, f, st, "y", "evaluate")
      [] ev.type = "viewport_resize" -> ReplayViewportResize(ev, idx, f, st)
      [] ev.type \in {"network_conditions_change", "network_conditions_initial"}
           -> ReplayNetworkConditions(ev, idx, f, st)
      [] OTHER -> ReplayUnhandled(ev, idx, f, st)

(***************************************************************************)
(* Cleanup: the body of Replay.stop after the flag is set (replay.ts       *)
(* 162-179) and the finally block of Replay.run (372-389) are the same     *)
(* code.  Each await is a suspension point: the call is made (and logged)  *)
(* when the code reaches it and takes effect when the await resumes.       *)
(* CleanupNext gives the synchronous code from a resumed await to the next *)
(* one: where it stops, whether it passed this.cdpSessions.clear(), and    *)
(* the call it makes there.                                                *)
(***************************************************************************)
CleanupCall(who, op, pg, v) == Entry(who, 0, op, pg, TRUE, v)

CleanupEnd == [at |-> "end", clear |-> FALSE, calls |-> <<>>]

CleanupFromBrowser(who) ==
    IF browser
    THEN [at |-> "browser", clear |-> FALSE,
          calls |-> <<CleanupCall(who, "browser.close", 0, 0)>>]
    ELSE CleanupEnd

CleanupFromContext(who) ==
    IF context
    THEN [at |-> "ctx", clear |-> FALSE,
          calls |-> <<CleanupCall(who, "context.close", 0, 0)>>]
    ELSE CleanupFromBrowser(who)

CleanupFromLoopNoDetach(who, k) ==
    [CleanupFromContext(who) EXCEPT !.clear = TRUE]

\* replay.ts 163-170 / 373-380: for (const [pageId, cdpSession] of
\* this.cdpSessions) await cdpSession.detach(); this.cdpSessions.clear()
CleanupFromLoop(who, k) ==
    IF k <= Len(cdpSessions)
    THEN [at |-> "detach", clear |-> FALSE,
          calls |-> <<CleanupCall(who, "detach", cdpSessions[k].h.pg,
                                  cdpSessions[k].h.sid)>>]
    ELSE [CleanupFromContext(who) EXCEPT !.clear = TRUE]

CleanupNext(who, at, k) ==
    CASE at = "start" -> CleanupFromLoop(who, 1)
      [] at = "detach" -> CleanupFromLoop(who, k + 1)
      [] at = "ctx" -> CleanupFromBrowser(who)
      [] at = "browser" -> CleanupEnd

AllPages == DOMAIN pageUrls

\* what the resumed await did to the browser: closing the context or the
\* browser closes every tab
CleanupEffect(at) ==
    /\ ctxOpen' = IF at \in {"ctx", "browser"} THEN FALSE ELSE ctxOpen
    /\ browserOpen' = IF at = "browser" THEN FALSE ELSE browserOpen
    /\ closedPages' = IF at \in {"ctx", "browser"} THEN AllPages ELSE closedPages

\* this.context = null; this.browser = null once the last await resumed
CleanupRefs(nxt) ==
    /\ context' = IF nxt.at = "end" THEN FALSE ELSE context
    /\ browser' = IF nxt.at = "end" THEN FALSE ELSE browser
    /\ cdpSessions' = IF nxt.clear THEN <<>> ELSE cdpSessions

(***************************************************************************)
(* The environment: a failure may be injected, or stop() called, while     *)
(* the scenario stays within its bound.                                    *)
(***************************************************************************)
CanDisturb == Len(events) + faults + stops < MaxScenario

\* the tabs under offline emulation: those whose latest successful
\* Network.emulateNetworkConditions carried offline: true
OfflineTabs ==
    {h \in DOMAIN pageUrls :
       LET E == SelectSeq(log, LAMBDA e : /\ e.op = "emulateNetworkConditions"
                                         /\ e.ok /\ e.pg = h)
       IN  Len(E) > 0 /\ events[E[Len(E)].ev].data.conditions.offline}

EngineState ==
    [pageMap |-> pageMap, closed |-> closedPages, sessions |-> cdpSessions,
     context |-> context, ctxOpen |-> ctxOpen, urls |-> pageUrls,
     override |-> urlOverride, offline |-> OfflineTabs, err |-> navError]

ResultValues == {1, 2}

inputs == <<events, speed, instr, urlOverride, navError>>

\* the variables of a capture session
capture == <<hasBrowser, tabs, pageSignals, setups, trackedPages, pages,
             currentPageId, recSessions, isRecording, browserClosedCallback,
             currentNetworkPreset, currentNetworkConditions, recEvents, clock,
             cliPc, disconnect, timers, resolved, stopPc, written, exited,
             loadState, loadCalls, sent, requests>>

recorder == <<compiled, newConditions, presetName, capture>>

(***************************************************************************)
(* Replay.run                                                              *)
(***************************************************************************)
\* replay.ts 214-223: this.browser = await chromium.launch(...)
Launch ==
    /\ pc = "idle"
    /\ \E fail \in BOOLEAN :
         /\ fail => CanDisturb
         /\ faults' = IF fail THEN faults + 1 ELSE faults
         /\ browser' = ~fail
         /\ browserOpen' = ~fail
         /\ rejected' = fail
         /\ pc' = IF fail THEN "fin_start" ELSE "launched"
         /\ log' = Append(log, Call(0, "launch", 0, ~fail))
    /\ UNCHANGED <<recorder, inputs, i, delay, result, returned, context, ctxOpen,
                   pageMap, page, closedPages, pageUrls, cdpSessions, fi,
                   pendingHooksValue, pendingHooks, finalResults, stopped,
                   spc, si, stops>>

\* replay.ts 224-274: this.context = await this.browser.newContext(), then
\* the hooks are compiled and pre-normalized against the mock handle
PreNormalize(value, old) ==
    IF Truthy(value) THEN NormalizeToHooks(value, TRUE) ELSE old

NewContext ==
    /\ pc = "launched"
    /\ \E fail \in BOOLEAN :
         LET ok == browser /\ browserOpen /\ ~fail
         IN  /\ fail => (CanDisturb /\ browser /\ browserOpen)
             /\ faults' = IF fail THEN faults + 1 ELSE faults
             /\ log' = IF browser
                       THEN Append(log, Call(0, "newContext", 0, ok))
                       ELSE log
             /\ context' = (ok \/ context)
             /\ ctxOpen' = (ok \/ ctxOpen)
             /\ rejected' = ~ok
             /\ pc' = IF ok THEN "loop" ELSE "fin_start"
             /\ pendingHooksValue' =
                  IF ok THEN CompileHooksValue(instr) ELSE pendingHooksValue
             /\ pendingHooks' =
                  IF ok THEN PreNormalize(CompileHooksValue(instr), pendingHooks)
                  ELSE pendingHooks
    /\ UNCHANGED <<recorder, inputs, i, delay, result, returned, browser, browserOpen,
                   pageMap, page, closedPages, pageUrls, cdpSessions, fi,
                   finalResults, stopped, spc, si, stops>>

HookUncaught(threw, nxt) == IF threw THEN "pace" ELSE nxt

\* replay.ts 294-301, 321-325, 332-339: each hook call sits in its own
\* try/catch, so the code goes on at nxt whether or not the hook threw
HookCaught(threw, nxt) == nxt

\* replay.ts 291-293: is onBeforeEvent invoked for ev, and with which tab
BeforePage(ev) ==
    IF page # 0 /\ "onBeforeEvent" \in pendingHooks
    THEN HookPage(ev, pageMap, page) ELSE 0

LoopExitsIgnoringStop(k, n, flag) == k > n

\* replay.ts 277-281: the loop is left when the events are exhausted or,
\* at the top of an iteration, the stop flag is found set
LoopExits(k, n, flag) == k > n \/ flag

\* replay.ts 277-303: loop condition, stop check, delay, onBeforeEvent
BeginEvent ==
    /\ pc = "loop"
    /\ IF LoopExits(i, Len(events), stopped)
       THEN /\ pc' = "complete"
            /\ UNCHANGED <<delay, faults, log>>
       ELSE /\ delay' = Delay(events, i, speed)
            /\ IF BeforePage(events[i]) # 0
               THEN \E threw \in BOOLEAN :
                      /\ threw => CanDisturb
                      /\ faults' = IF threw THEN faults + 1 ELSE faults
                      /\ log' = Append(log, Hook(i, "onBeforeEvent",
                                           BeforePage(events[i]), ~threw))
                      /\ pc' = HookCaught(threw, "dispatch")
               ELSE /\ pc' = "dispatch"
                    /\ UNCHANGED <<faults, log>>
    /\ UNCHANGED <<recorder, inputs, i, result, rejected, returned, browser, context,
                   browserOpen, ctxOpen, pageMap, page, closedPages, pageUrls,
                   cdpSessions, fi, pendingHooksValue, pendingHooks,
                   finalResults, stopped, spc, si, stops>>

AfterDispatchEveryTab(out) ==
    IF out.threw THEN "pace"
    ELSE IF out.result # 0 THEN "setup"
    ELSE "after"

AfterDispatchAbort(out) ==
    IF out.threw THEN "fin_start"
    ELSE IF out.result # 0 /\ page = 0 THEN "setup"
    ELSE "after"

\* replay.ts 306-307 and 341-343: where the loop body goes after replayEvent
AfterDispatch(out) ==
    IF out.threw THEN "pace"
    ELSE IF out.result # 0 /\ page = 0 THEN "setup"
    ELSE "after"

\* the log's record that replayEvent was entered for event idx, and
\* whether it returned (ok) or threw
Dispatched(idx, ev, out) == Entry("dispatch", idx, ev.type, 0, ~out.threw, 0)

\* replay.ts 306: await this.replayEvent(event, pageMap, attachPageListeners)
Dispatch ==
    /\ pc = "dispatch"
    /\ \E f \in 0..3 :
         LET out == ReplayEvent(events[i], i, f, EngineState)
         IN  /\ f > 0 => (CanDisturb /\ f <= Len(out.calls) /\ ~out.calls[f].ok)
             /\ faults' = IF f > 0 THEN faults + 1 ELSE faults
             /\ log' = Append(log, Dispatched(i, events[i], out)) \o out.calls
             /\ pageMap' = out.pageMap
             /\ closedPages' = out.closed
             /\ cdpSessions' = out.sessions
             /\ pageUrls' = out.urls
             /\ result' = out.result
             /\ pc' = AfterDispatch(out)
    /\ UNCHANGED <<recorder, inputs, i, delay, rejected, returned, browser, context,
                   browserOpen, ctxOpen, page, fi, pendingHooksValue,
                   pendingHooks, finalResults, stopped, spc, si, stops>>

ReNormalizeKeep(value, old) == old

\* replay.ts 311-317
ReNormalize(value, old) ==
    IF Truthy(value) THEN NormalizeToHooks(value, FALSE) ELSE old

\* replay.ts 307-327: the first tab: page = result, re-normalize, setup
SetupHook ==
    /\ pc = "setup"
    /\ page' = result
    /\ pendingHooks' = ReNormalize(pendingHooksValue, pendingHooks)
    /\ IF "setup" \in pendingHooks'
       THEN \E threw \in BOOLEAN :
              /\ threw => CanDisturb
              /\ faults' = IF threw THEN faults + 1 ELSE faults
              /\ log' = Append(log, Hook(i, "setup", result, ~threw))
              /\ pc' = HookCaught(threw, "after")
       ELSE /\ pc' = "after"
            /\ UNCHANGED <<faults, log>>
    /\ UNCHANGED <<recorder, inputs, i, delay, result, rejected, returned, browser,
                   context, browserOpen, ctxOpen, pageMap, closedPages,
                   pageUrls, cdpSessions, fi, pendingHooksValue, finalResults,
                   stopped, spc, si, stops>>

\* replay.ts 330-331
AfterPage(ev) ==
    IF "onAfterEvent" \in pendingHooks THEN HookPage(ev, pageMap, page) ELSE 0

\* replay.ts 329-340
AfterHook ==
    /\ pc = "after"
    /\ IF AfterPage(events[i]) # 0
       THEN \E threw \in BOOLEAN :
              /\ threw => CanDisturb
              /\ faults' = IF threw THEN faults + 1 ELSE faults
              /\ log' = Append(log, Hook(i, "onAfterEvent",
                                         AfterPage(events[i]), ~threw))
              /\ pc' = HookCaught(threw, "pace")
       ELSE /\ pc' = "pace"
            /\ UNCHANGED <<faults, log>>
    /\ UNCHANGED <<recorder, inputs, i, delay, result, rejected, returned, browser,
                   context, browserOpen, ctxOpen, pageMap, page, closedPages,
                   pageUrls, cdpSessions, fi, pendingHooksValue, pendingHooks,
                   finalResults, stopped, spc, si, stops>>

NextIndexSkip(k) == k + 2

NextIndexStay(k) == k

\* the for statement's i++
NextIndex(k) == k + 1

\* replay.ts 345-349: the pacing sleep, then the next iteration
Pace ==
    /\ pc = "pace"
    /\ LET w == PacingWait(events, i, delay)
       IN  log' = IF w > 0
                  THEN Append(log, Entry("wait", i, "setTimeout", 0, TRUE, w))
                  ELSE log
    /\ i' = NextIndex(i)
    /\ pc' = "loop"
    /\ UNCHANGED <<recorder, inputs, delay, result, rejected, returned, browser, context,
                   browserOpen, ctxOpen, pageMap, page, closedPages, pageUrls,
                   cdpSessions, fi, pendingHooksValue, pendingHooks,
                   finalResults, stopped, spc, si, faults, stops>>

\* replay.ts 352-359: is onComplete invoked, and with which tab
CompletePage ==
    IF "onComplete" \in pendingHooks
    THEN PageForComplete(pageMap, closedPages, page) ELSE 0

\* replay.ts 351-370
Complete ==
    /\ pc = "complete"
    /\ IF CompletePage # 0
       THEN \/ /\ CanDisturb
               /\ faults' = faults + 1
               /\ log' = Append(log, Hook(i, "onComplete", CompletePage, FALSE))
               /\ UNCHANGED finalResults
            \/ \E r \in ResultValues :
               /\ finalResults' = r
               /\ log' = Append(log, Entry("hook", i, "onComplete",
                                           CompletePage, TRUE, r))
               /\ UNCHANGED faults
       ELSE UNCHANGED <<faults, log, finalResults>>
    /\ pc' = "fin_start"
    /\ UNCHANGED <<recorder, inputs, i, delay, result, rejected, returned, browser,
                   context, browserOpen, ctxOpen, pageMap, page, closedPages,
                   pageUrls, cdpSessions, fi, pendingHooksValue, pendingHooks,
                   stopped, spc, si, stops>>

ReturnedContextInitial(fr) == <<EmptyResult>>

\* replay.ts 394-401: the finalResults field of the returned ReplayContext
ReturnedContext(fr) == <<fr>>

FinallyAt == CASE pc = "fin_start" -> "start"
               [] pc = "fin_detach" -> "detach"
               [] pc = "fin_ctx" -> "ctx"
               [] pc = "fin_browser" -> "browser"
               [] OTHER -> "none"

\* replay.ts 371-401: the finally block, one await at a time, then the
\* return (or the rethrow of the pending error)
Finally ==
    /\ FinallyAt # "none"
    /\ LET nxt == CleanupNext("finally", FinallyAt, fi)
       IN  /\ CleanupEffect(FinallyAt)
           /\ CleanupRefs(nxt)
           /\ log' = log \o nxt.calls
           /\ fi' = IF FinallyAt = "start" THEN 1
                    ELSE IF FinallyAt = "detach" THEN fi + 1 ELSE fi
           /\ pc' = IF nxt.at = "end" THEN "done" ELSE "fin_" \o nxt.at
           /\ returned' = IF nxt.at = "end" /\ ~rejected
                          THEN ReturnedContext(finalResults) ELSE returned
    /\ UNCHANGED <<recorder, inputs, i, delay, result, rejected, pageMap, page,
                   pageUrls, pendingHooksValue, pendingHooks, finalResults,
                   stopped, spc, si, faults, stops>>

(***************************************************************************)
(* Replay.stop                                                             *)
(***************************************************************************)
\* replay.ts 159-163: the flag is set and the cleanup starts
StopCall ==
    /\ spc = "idle"
    /\ pc # "done"
    /\ CanDisturb
    /\ stops' = stops + 1
    /\ stopped' = TRUE
    /\ LET nxt == CleanupNext("stop", "start", si)
       IN  /\ CleanupRefs(nxt)
           /\ log' = Append(log, Entry("stop", 0, "stop", 0, TRUE, 0)) \o nxt.calls
           /\ spc' = IF nxt.at = "end" THEN "done" ELSE nxt.at
    /\ si' = 1
    /\ UNCHANGED <<recorder, inputs, pc, i, delay, result, rejected, returned,
                   browserOpen, ctxOpen, pageMap, page, closedPages, pageUrls,
                   fi, pendingHooksValue, pendingHooks, finalResults, faults>>

\* replay.ts 164-179: an await of stop() resumes
StopResume ==
    /\ spc \in {"detach", "ctx", "browser"}
    /\ LET nxt == CleanupNext("stop", spc, si)
       IN  /\ CleanupEffect(spc)
           /\ CleanupRefs(nxt)
           /\ log' = log \o nxt.calls
           /\ spc' = IF nxt.at = "end" THEN "done" ELSE nxt.at
    /\ si' = IF spc = "detach" THEN si + 1 ELSE si
    /\ UNCHANGED <<recorder, inputs, pc, i, delay, result, rejected, returned, pageMap,
                   page, pageUrls, fi, pendingHooksValue, pendingHooks,
                   finalResults, stopped, faults, stops>>

(***************************************************************************)
(* BrowserRecorder.getNetworkPresets / detectNetworkConditionsChange        *)
(* (src/src/recorder.ts 44-95).  Throughputs are in bytes per second (-1   *)
(* for none), latencies in half milliseconds, so that Fast 3G's 562.5 ms   *)
(* is the integer 1125.                                                    *)
(***************************************************************************)
HalfMs(ms) == 2 * ms

Conditions(offline, down, up, latency) ==
    [offline |-> offline, downloadThroughput |-> down,
     uploadThroughput |-> up, latency |-> latency]

\* recorder.ts 44-77, in the order of the object literal
NetworkPresets ==
    << [name |-> "Fast 3G",
        conditions |-> Conditions(FALSE, 150 * 1024, 75 * 1024, 1125)],
       [name |-> "Slow 3G",
        conditions |-> Conditions(FALSE, 50 * 1024, 50 * 1024, HalfMs(2000))],
       [name |-> "Fast 4G",
        conditions |-> Conditions(FALSE, 400 * 1024, 400 * 1024, HalfMs(20))],
       [name |-> "Offline",
        conditions |-> Conditions(TRUE, 0, 0, HalfMs(0))],
       [name |-> "No throttling",
        conditions |-> Conditions(FALSE, -1, -1, HalfMs(0))] >>

Abs(x) == IF x < 0 THEN -x ELSE x

LatencyVariance == HalfMs(10)

LatencyCloseInclusive(a, b) == Abs(a - b) <= LatencyVariance

\* recorder.ts 87: Math.abs(conditions.latency - newConditions.latency) < 10
LatencyClose(a, b) == Abs(a - b) < LatencyVariance

\* recorder.ts 83-88
PresetMatches(conditions, new) ==
    /\ conditions.offline = new.offline
    /\ conditions.downloadThroughput = new.downloadThroughput
    /\ conditions.uploadThroughput = new.uploadThroughput
    /\ LatencyClose(conditions.latency, new.latency)

\* the returned string: a preset's name, or the Custom label with the
\* observed numbers (recorder.ts 94)
PresetLabel(name) == [name |-> name, detail |-> <<>>]

CustomLabel(new) ==
    [name |-> "Custom",
     detail |-> << IF new.offline THEN "Offline" ELSE "Online",
                   MathRound(new.downloadThroughput, 1024),
                   MathRound(new.uploadThroughput, 1024),
                   new.latency >>]

\* recorder.ts 79-95: the first preset, in table order, that matches
DetectNetworkConditionsChange(new) ==
    LET hits == SelectSeq(NetworkPresets,
                          LAMBDA p : PresetMatches(p.conditions, new))
    IN  IF Len(hits) > 0 THEN PresetLabel(hits[1].name) ELSE CustomLabel(new)

NoLabel == [name |-> "", detail |-> <<>>]

\* recorder.ts 26-36, 262-267: no throttling
DefaultConditions == Conditions(FALSE, -1, -1, 0)

NoConditions == <<>>

Callers == {"main", "sigint"}

\* recorder.ts 10-24: the fields of a new BrowserRecorder; cli.ts 90: the
\* record action has created it and not yet called startRecording
InitRecorder ==
    /\ tabs = <<>> /\ pageSignals = {} /\ setups = <<>>
    /\ trackedPages = {} /\ pages = <<>> /\ currentPageId = 0
    /\ recSessions = {}
    /\ isRecording = FALSE /\ browserClosedCallback = FALSE
    /\ currentNetworkPreset = "No throttling"
    /\ currentNetworkConditions = NoConditions
    /\ recEvents = <<>> /\ clock = 0
    /\ cliPc = "created"
    /\ disconnect = [pc |-> "none", wasRecording |-> FALSE]
    /\ timers = 0 /\ resolved = FALSE
    /\ stopPc = [c \in Callers |-> "none"]
    /\ written = 0 /\ exited = FALSE
    /\ loadState = <<>> /\ loadCalls = <<>>
    /\ sent = <<>> /\ requests = <<>>

\* tryCompileInstrumentation has not been called
NotCompiled == [done |-> FALSE, ok |-> FALSE, error |-> FALSE]

\* no call of tryCompileInstrumentation or detectNetworkConditionsChange is
\* under way, and the record command is not run
RecorderIdle ==
    /\ compiled = NotCompiled
    /\ newConditions = Conditions(FALSE, -1, -1, 0)
    /\ presetName = NoLabel
    /\ hasBrowser = FALSE
    /\ InitRecorder

\* presetName = this.detectNetworkConditionsChange(newConditions)
Detect ==
    /\ presetName = NoLabel
    /\ presetName' = DetectNetworkConditionsChange(newConditions)
    /\ UNCHANGED <<inputs, newConditions, pc, i, delay, result, rejected,
                   returned, browser, context, browserOpen, ctxOpen, pageMap,
                   page, closedPages, pageUrls, cdpSessions, fi,
                   pendingHooksValue, pendingHooks, finalResults, stopped, spc,
                   si, faults, stops, log, compiled, capture>>

(***************************************************************************)
(* Inputs                                                                  *)
(***************************************************************************)
Ev(type, pageId, data) == [type |-> type, pageId |-> pageId, data |-> data]

NoData == <<>>
ClickData == [x |-> 10, y |-> 20]

EventShapes ==
    { Ev("newtab", "p1", NoData), Ev("newtab", "p2", NoData),
      Ev("closetab", "p1", NoData),
      Ev("click", "p1", ClickData),
      Ev("mousemove", "", NoData) }

\* the recording whose k-th event has shape sh[k] and timestamp ts[k]
Stamped(sh, ts) ==
    [k \in DOMAIN sh |-> [type |-> sh[k].type, pageId |-> sh[k].pageId,
                          data |-> sh[k].data, timestamp |-> ts[k]]]

EvenStamps(n) == [k \in 1..n |-> 500 * (k - 1)]

AllHooks == [shape |-> "object", names |-> HookNames]

Instrumentations ==
    { [shape |-> "syntaxError"], [shape |-> "number"], [shape |-> "falsy"],
      AllHooks,
      [shape |-> "factory", onMock |-> [res |-> "throw"],
       onReal |-> [res |-> "hooks", names |-> HookNames]] }

\* the state after construction (replay.ts 127-153), with run() not yet called
InitEngine ==
    /\ pc = "idle" /\ i = 1 /\ delay = 0 /\ result = 0
    /\ rejected = FALSE /\ returned = <<>>
    /\ browser = FALSE /\ context = FALSE
    /\ browserOpen = FALSE /\ ctxOpen = FALSE
    /\ pageMap = <<>> /\ page = 0
    /\ closedPages = {} /\ pageUrls = <<>>
    /\ cdpSessions = <<>> /\ fi = 1
    /\ pendingHooksValue = [shape |-> "absent"] /\ pendingHooks = {}
    /\ finalResults = EmptyResult
    /\ stopped = FALSE /\ spc = "idle" /\ si = 1
    /\ faults = 0 /\ stops = 0
    /\ log = <<>>

Init ==
    /\ \E n \in 0..MaxScenario : \E sh \in [1..n -> EventShapes] :
         events = Stamped(sh, EvenStamps(n))
    /\ speed = 10
    /\ instr \in Instrumentations
    /\ urlOverride = NoUrl
    /\ navError = "other"
    /\ InitEngine
    /\ RecorderIdle

Next ==
    \/ Launch
    \/ NewContext
    \/ BeginEvent
    \/ Dispatch
    \/ SetupHook
    \/ AfterHook
    \/ Pace
    \/ Complete
    \/ Finally
    \/ StopCall
    \/ StopResume

Spec == Init /\ [][Next]_vars

(***************************************************************************)
(* Pacing scenarios: a first tab and unreplayed events, with timestamps    *)
(* in any order and the speeds 0 (below the floor), 0.5, 1, 2 and 3.       *)
(***************************************************************************)
PaceStamps == {0, 1, 400, 1000}
PaceSpeeds == {0, 5, 10, 20, 30}

PaceShapes(n) ==
    [k \in 1..n |-> IF k = 1 THEN Ev("newtab", "p1", NoData)
                               ELSE Ev("mousemove", "", NoData)]

InitPace ==
    /\ \E n \in 0..MaxPaceEvents : \E ts \in [1..n -> PaceStamps] :
         events = Stamped(PaceShapes(n), ts)
    /\ speed \in PaceSpeeds
    /\ instr = AllHooks
    /\ urlOverride = NoUrl
    /\ navError = "other"
    /\ InitEngine
    /\ RecorderIdle

SpecPace == InitPace /\ [][Next]_vars

(***************************************************************************)
(* Vocabulary of the properties                                            *)
(***************************************************************************)
ReplayedTypes ==
    {"newtab", "closetab", "navigation", "click", "input", "keydown",
     "scroll", "viewport_resize", "network_conditions_change",
     "network_conditions_initial"}

Positions == DOMAIN log

IsEventCall(e) == e.k = "call" /\ e.ev > 0
IsDispatch(e) == e.k = "dispatch"
IsHook(e, op) == e.k = "hook" /\ e.op = op

Dispatches == SelectSeq(log, IsDispatch)

DispatchedAt(e) == \E a \in Positions : IsDispatch(log[a]) /\ log[a].ev = e

DispatchThrew(e) ==
    \E a \in Positions : IsDispatch(log[a]) /\ log[a].ev = e /\ ~log[a].ok

HookAt(op, e) == {a \in Positions : IsHook(log[a], op) /\ log[a].ev = e}
HookCalls(op) == {a \in Positions : IsHook(log[a], op)}

FinallyPcs == {"fin_start", "fin_detach", "fin_ctx", "fin_browser"}

\* the event loop was entered and has been left
LoopEnded == pc \in {"complete", "done"} \cup FinallyPcs /\ ~rejected

\* the step after onComplete has been reached
PastComplete == pc \in {"done"} \cup FinallyPcs /\ ~rejected

\* event e is past its replayEvent call / past its onAfterEvent step
PastDispatch(e) == i > e \/ (i = e /\ pc \in {"setup", "after", "pace"})
PastAfter(e) == i > e \/ (i = e /\ pc = "pace")

\* the hooks the instrumentation source yields for a real tab
LoadedHooks == NormalizeToHooks(CompileHooksValue(instr), FALSE)

(***************************************************************************)
(* C1: the events are dispatched in the order of the recording: the k-th   *)
(* replayEvent call is for event k (none twice, none skipped), every       *)
(* automation call of an event is made after the event's dispatch began    *)
(* and before any call of a later event, an event of an unreplayed type    *)
(* makes no call, and a loop that ends without stop() has passed every     *)
(* event.                                                                  *)
(***************************************************************************)
C1_DispatchOrder ==
    /\ LET D == Dispatches
       IN  \A k \in DOMAIN D : D[k].ev = k
    /\ LET S == SelectSeq(log, LAMBDA x : IsEventCall(x) \/ IsDispatch(x))
       IN  \A k \in 1..(Len(S) - 1) : S[k].ev <= S[k + 1].ev
    /\ \A a \in Positions :
         IsEventCall(log[a]) =>
           /\ events[log[a].ev].type \in ReplayedTypes
           /\ \E b \in Positions :
                b < a /\ IsDispatch(log[b]) /\ log[b].ev = log[a].ev
    /\ (LoopEnded /\ ~stopped) => Len(Dispatches) = Len(events)

C1_Witness ==
    /\ pc = "done" /\ Len(events) = 3 /\ Len(Dispatches) = 3
    /\ events[2].type = "mousemove"
    /\ \E a, b \in Positions :
         /\ IsEventCall(log[a]) /\ log[a].ev = 1
         /\ IsEventCall(log[b]) /\ log[b].ev = 3

(***************************************************************************)
(* C2: the wait after event k is round(d / max(0.1, speed)) clamped to     *)
(* [0, 3000], d the recorded delta to event k+1 (round: to the nearest     *)
(* integer, halves up); no wait follows the last event; there is at most   *)
(* one wait per event.  A wait of 0 is the absence of a wait.              *)
(***************************************************************************)
WaitsOf(k) == SelectSeq(log, LAMBDA e : e.k = "wait" /\ e.ev = k)
WaitOf(k) == IF WaitsOf(k) = <<>> THEN 0 ELSE WaitsOf(k)[1].v

\* w = clamp(round(num / den), 0, 3000), for den > 0
IsClampedRound(w, num, den) ==
    \/ w = 0 /\ 2 * num < den
    \/ w = 3000 /\ 2 * num >= 2 * 3000 * den - den
    \/ /\ 0 < w /\ w < 3000
       /\ 2 * den * w - den <= 2 * num
       /\ 2 * num < 2 * den * w + den

C2_PacingLaw ==
    \A k \in DOMAIN events :
      /\ Len(WaitsOf(k)) <= 1
      /\ k >= i => WaitsOf(k) = <<>>
      /\ k < i =>
           IF k = Len(events)
           THEN WaitOf(k) = 0
           ELSE IsClampedRound(WaitOf(k),
                               10 * (events[k + 1].timestamp - events[k].timestamp),
                               IF speed < 1 THEN 1 ELSE speed)

C2_Witness ==
    /\ pc = "done" /\ Len(events) = 3
    /\ WaitOf(1) = 3000
    /\ events[3].timestamp < events[2].timestamp
    /\ WaitOf(2) = 0 /\ WaitOf(3) = 0

(***************************************************************************)
(* C3: a throwing setup, onBeforeEvent or onAfterEvent does not abort the  *)
(* run: the run does not reject, the event goes on where it would have     *)
(* (dispatch after onBeforeEvent, onAfterEvent after setup), the later     *)
(* events are dispatched and get their hooks, and onComplete is invoked.   *)
(***************************************************************************)
ThrownHooks ==
    {a \in Positions : /\ log[a].k = "hook" /\ ~log[a].ok
                       /\ log[a].op \in {"setup", "onBeforeEvent", "onAfterEvent"}}

C3_HookIsolation ==
    \A a \in ThrownHooks :
      LET e == log[a].ev
      IN  /\ ~rejected
          /\ pc = "done" => returned # <<>>
          /\ log[a].op = "onBeforeEvent" =>
               ((i = e /\ pc = "dispatch") \/ DispatchedAt(e))
          /\ log[a].op = "setup" =>
               /\ (i = e /\ pc = "after") \/ PastAfter(e)
               /\ (PastAfter(e) /\ "onAfterEvent" \in pendingHooks)
                    => Cardinality(HookAt("onAfterEvent", e)) = 1
          /\ log[a].op = "onAfterEvent" => PastAfter(e)
          /\ (LoopEnded /\ ~stopped) =>
               \A e2 \in (e + 1)..Len(events) : DispatchedAt(e2)
          /\ \A e2 \in (e + 1)..Len(events) :
               events[e2].pageId = "" =>
                 /\ (PastDispatch(e2) /\ "onBeforeEvent" \in pendingHooks)
                      => Cardinality(HookAt("onBeforeEvent", e2)) = 1
                 /\ (PastAfter(e2) /\ ~DispatchThrew(e2)
                       /\ "onAfterEvent" \in pendingHooks)
                      => Cardinality(HookAt("onAfterEvent", e2)) = 1
          /\ (PastComplete /\ "onComplete" \in pendingHooks)
               => HookCalls("onComplete") # {}

C3_Witness ==
    /\ pc = "done" /\ ~stopped
    /\ \E a \in ThrownHooks : log[a].op = "onAfterEvent" /\ log[a].ev = 1
    /\ DispatchedAt(2)
    /\ HookAt("onBeforeEvent", 2) # {} /\ HookAt("onAfterEvent", 2) # {}
    /\ HookCalls("onComplete") # {}

(***************************************************************************)
(* C4 as stated: in every run whose hooks define setup, setup is called    *)
(* exactly once, after the first tab was created and before every          *)
(* onBeforeEvent and onAfterEvent call.                                    *)
(***************************************************************************)
FirstTabCreatedBefore(a) ==
    \E b \in Positions : b < a /\ log[b].op = "newPage" /\ log[b].ok

SetupPrecedesEventHooks ==
    \A a \in HookCalls("onBeforeEvent") \cup HookCalls("onAfterEvent") :
      \E b \in HookCalls("setup") : b < a

C4_SetupExactlyOnce_Stated ==
    (pc = "done" /\ ~rejected /\ "setup" \in LoadedHooks
       /\ stops = 0 /\ faults = 0) =>
      /\ Cardinality(HookCalls("setup")) = 1
      /\ \A a \in HookCalls("setup") : FirstTabCreatedBefore(a)
      /\ SetupPrecedesEventHooks

(***************************************************************************)
(* C4 amended: setup is called at most once; with hooks that define setup  *)
(* it has been called exactly when the run has its first tab, with that    *)
(* tab, right after the first successful tab creation, and before every    *)
(* onBeforeEvent and onAfterEvent call; a run that creates no tab never    *)
(* calls it.                                                               *)
(***************************************************************************)
C4_SetupOncePerFirstTab ==
    /\ Cardinality(HookCalls("setup")) <= 1
    /\ "setup" \notin LoadedHooks => HookCalls("setup") = {}
    /\ "setup" \in LoadedHooks =>
         /\ Cardinality(HookCalls("setup")) = 1 <=> page # 0
         /\ SetupPrecedesEventHooks
    /\ \A a \in HookCalls("setup") :
         /\ log[a].pg = page
         /\ \E b \in Positions :
              /\ b < a /\ log[b].op = "newPage" /\ log[b].ok /\ log[b].pg = page
              /\ ~FirstTabCreatedBefore(b)
              /\ \A c \in (b + 1)..(a - 1) : log[c].k = "stop"

C4_Witness ==
    /\ pc = "done"
    /\ Cardinality(HookCalls("setup")) = 1
    /\ Cardinality({a \in Positions : log[a].op = "newPage" /\ log[a].ok}) = 2
    /\ HookCalls("onAfterEvent") # {} /\ HookCalls("onBeforeEvent") # {}

OpenTabs == AllPages \ closedPages

LastUse(h) ==
    CHOOSE a \in Positions :
      /\ log[a].k = "call" /\ log[a].pg = h
      /\ \A b \in Positions : (log[b].k = "call" /\ log[b].pg = h) => b <= a

MostRecentlyActive ==
    CHOOSE h \in OpenTabs : \A g \in OpenTabs : LastUse(g) <= LastUse(h)

JustCompleted ==
    /\ pc = "fin_start" /\ stops = 0 /\ faults = 0 /\ log # <<>>
    /\ IsHook(log[Len(log)], "onComplete")

\* every open tab is registered in the tab map
AllOpenTabsMapped == OpenTabs = {pageMap[k].h : k \in DOMAIN pageMap}

C6_MostRecentlyActive_Stated ==
    (JustCompleted /\ OpenTabs # {} /\ AllOpenTabsMapped)
      => log[Len(log)].pg = MostRecentlyActive

(***************************************************************************)
(* C6 amended: the tab onComplete receives is the last entry of the tab    *)
(* map (in insertion order of its pageIds) whose tab is not closed, and    *)
(* the first tab the run created when the map holds no open tab.           *)
(***************************************************************************)
OpenEntries == {k \in DOMAIN pageMap : pageMap[k].h \notin closedPages}

LastOpenEntryOrFirstTab ==
    IF OpenEntries = {} THEN page
    ELSE pageMap[CHOOSE k \in OpenEntries : \A j \in OpenEntries : j <= k].h

C6_LastOpenEntry ==
    [][(pc = "complete" /\ pc' = "fin_start" /\ Len(log') > Len(log))
         => /\ IsHook(log'[Len(log')], "onComplete")
            /\ log'[Len(log')].pg = LastOpenEntryOrFirstTab]_vars

C6_Witness ==
    /\ JustCompleted
    /\ Len(events) = 3 /\ events[3].type = "click"
    /\ page = 1 /\ OpenTabs = {1, 2}
    /\ MostRecentlyActive = 1
    /\ log[Len(log)].pg = 2

(***************************************************************************)
(* C7: the finalResults of the returned ReplayContext is the value the     *)
(* run's onComplete invocation returned.                                   *)
(***************************************************************************)
C7_FinalResults ==
    (pc = "done" /\ ~rejected) =>
      \A a \in HookCalls("onComplete") : log[a].ok => returned = <<log[a].v>>

C7_Witness ==
    /\ pc = "done" /\ returned = <<2>>
    /\ \E a \in HookCalls("onComplete") : log[a].ok /\ log[a].v = 2

(***************************************************************************)
(* C8: with a source that does not compile, or whose value exposes no      *)
(* hook, no hook is ever invoked, every event is dispatched (unless        *)
(* stop() ends the loop), the run rejects only when the browser could not  *)
(* be launched, and it returns the initial, empty finalResults.            *)
(***************************************************************************)
ExposesNoHook(r) == r.res # "hooks" \/ r.names = {}

NoHookSource ==
    \/ instr.shape \in {"absent", "syntaxError", "falsy", "number"}
    \/ instr.shape = "object" /\ instr.names = {}
    \/ instr.shape = "factory" /\ ExposesNoHook(instr.onMock)
                               /\ ExposesNoHook(instr.onReal)

LaunchFailed ==
    \/ \E a \in Positions : log[a].op \in {"launch", "newContext"} /\ ~log[a].ok
    \/ stops > 0

C8_Degradation ==
    NoHookSource =>
      /\ \A a \in Positions : log[a].k # "hook"
      /\ rejected => LaunchFailed
      /\ (pc = "done" /\ ~rejected) => returned = <<EmptyResult>>
      /\ (LoopEnded /\ ~stopped) => Len(Dispatches) = Len(events)

C8_Witness ==
    /\ pc = "done" /\ instr.shape = "number"
    /\ Len(events) = 3 /\ Len(Dispatches) = 3 /\ page # 0
    /\ returned = <<EmptyResult>>

(***************************************************************************)
(* C9 as stated: per event, onBeforeEvent and onAfterEvent are each        *)
(* invoked at most once, and exactly when a tab can be resolved for the    *)
(* event (its pageId is in the tab map, or it has no pageId and the run    *)
(* has a tab).                                                             *)
(***************************************************************************)
Resolvable(ev) ==
    IF ev.pageId # "" THEN MapHas(pageMap, ev.pageId) ELSE page # 0

AtMostOncePerEvent ==
    \A e \in DOMAIN events :
      /\ Cardinality(HookAt("onBeforeEvent", e)) <= 1
      /\ Cardinality(HookAt("onAfterEvent", e)) <= 1

BeforeWhenResolvable ==
    (pc = "dispatch" /\ "onBeforeEvent" \in pendingHooks) =>
      (HookAt("onBeforeEvent", i) # {} <=> (page # 0 /\ Resolvable(events[i])))

C9_HooksWhenResolvable_Stated ==
    /\ AtMostOncePerEvent
    /\ BeforeWhenResolvable
    /\ (pc = "pace" /\ "onAfterEvent" \in pendingHooks) =>
         (HookAt("onAfterEvent", i) # {} <=> Resolvable(events[i]))

(***************************************************************************)
(* C9 amended: per event, each of the two hooks is invoked at most once;   *)
(* onBeforeEvent exactly when a tab can be resolved before the dispatch;   *)
(* onAfterEvent exactly when the dispatch of the event did not throw and   *)
(* a tab can be resolved after it; a hook skipped for an event is not      *)
(* invoked later (the hook calls follow the order of the events, before    *)
(* the dispatch and after it).                                             *)
(***************************************************************************)
HooksInEventOrder ==
    LET H == SelectSeq(log, LAMBDA x : x.k \in {"hook", "dispatch"})
    IN  \A k \in 1..(Len(H) - 1) :
          /\ H[k].ev <= H[k + 1].ev
          /\ H[k].ev = H[k + 1].ev =>
               /\ ~IsHook(H[k + 1], "onBeforeEvent")
               /\ ~IsHook(H[k], "onAfterEvent")

C9_HooksWhenResolved ==
    /\ AtMostOncePerEvent
    /\ BeforeWhenResolvable
    /\ (pc = "pace" /\ "onAfterEvent" \in pendingHooks) =>
         (HookAt("onAfterEvent", i) # {}
            <=> (Resolvable(events[i]) /\ ~DispatchThrew(i)))
    /\ \A e \in DOMAIN events :
         e > i => (HookAt("onBeforeEvent", e) = {} /\ HookAt("onAfterEvent", e) = {})
    /\ HooksInEventOrder

C9_Witness ==
    /\ pc = "pace" /\ "onAfterEvent" \in pendingHooks
    /\ DispatchThrew(i) /\ Resolvable(events[i])
    /\ HookAt("onBeforeEvent", i) # {} /\ HookAt("onAfterEvent", i) = {}

(***************************************************************************)
(* C10: an exception thrown by the dispatch of event e is caught at the    *)
(* per-event boundary: the run does not reject, the loop goes to the       *)
(* pacing step of e, and the events after e are dispatched.                *)
(***************************************************************************)
C10_PerEventCatch ==
    \A e \in DOMAIN events :
      DispatchThrew(e) =>
        /\ ~rejected
        /\ pc = "done" => returned # <<>>
        /\ i = e => pc = "pace"
        /\ i > e \/ i = e
        /\ (LoopEnded /\ ~stopped) =>
             \A e2 \in (e + 1)..Len(events) : DispatchedAt(e2)

C10_Witness ==
    /\ pc = "done" /\ Len(events) = 2
    /\ DispatchThrew(1) /\ DispatchedAt(2)
    /\ returned # <<>>

(***************************************************************************)
(* C11: once the stop flag is set, no event is begun: the loop, found at   *)
(* the top of an iteration, only leaves; every dispatch, automation call,  *)
(* event hook, setup and pacing wait made from then on belongs to the      *)
(* event that was in flight when the flag was set, and onBeforeEvent is    *)
(* never invoked again.                                                    *)
(***************************************************************************)
InFlight == pc \in {"dispatch", "setup", "after", "pace"}

IsEventEntry(e) ==
    \/ e.k \in {"dispatch", "wait"}
    \/ IsEventCall(e)
    \/ e.k = "hook" /\ e.op # "onComplete"

C11_NoEventAfterStop ==
    [][stopped =>
         /\ ~InFlight => pc' \notin {"dispatch", "setup", "after", "pace"}
         /\ i' = i \/ (i' = i + 1 /\ pc = "pace")
         /\ \A k \in (Len(log) + 1)..Len(log') :
              IsEventEntry(log'[k]) =>
                /\ InFlight /\ log'[k].ev = i
                /\ log'[k].op # "onBeforeEvent"]_vars

C11_Witness ==
    /\ pc = "done" /\ stopped /\ ~rejected
    /\ Len(events) = 2 /\ Len(Dispatches) = 1
    /\ \E s, d \in Positions :
         /\ s < d /\ log[s].k = "stop" /\ log[s].op = "stop"
         /\ IsDispatch(log[d]) /\ log[d].ev = 1

(***************************************************************************)
(* C12: stop() is cooperative: when it is called while a hook of an event  *)
(* is in progress, the automation calls of that event are still made       *)
(* against a live browser, so that, with no failure injected, none of      *)
(* them fails.                                                             *)
(***************************************************************************)
IsStopCall(e) == e.k = "stop" /\ e.op = "stop"

\* stop() was called while onBeforeEvent of event e was awaited
StoppedDuringBeforeHook(e) ==
    \E h, s \in Positions :
      /\ h < s /\ IsHook(log[h], "onBeforeEvent") /\ log[h].ev = e
      /\ IsStopCall(log[s])
      /\ \A d \in Positions : (IsDispatch(log[d]) /\ log[d].ev = e) => s < d

C12_InFlightEventRunsLive ==
    faults = 0 =>
      \A a \in Positions :
        (IsEventCall(log[a]) /\ StoppedDuringBeforeHook(log[a].ev)) => log[a].ok

(***************************************************************************)
(* C15: onComplete runs before teardown: when onComplete is invoked, no    *)
(* session has been detached and neither the context's nor the browser's   *)
(* close has been called.                                                  *)
(***************************************************************************)
IsTeardownCall(e) ==
    e.k \in {"stop", "finally"} /\ e.op \in {"detach", "context.close", "browser.close"}

C15_CompleteBeforeTeardown ==
    faults = 0 =>
      \A a \in HookCalls("onComplete") :
        \A b \in Positions : b < a => ~IsTeardownCall(log[b])

(***************************************************************************)
(* Session scenarios: a tab and network-conditions events, which create    *)
(* debug-protocol sessions (keyed by the event's pageId, '' when it has    *)
(* none), replayed with every hook defined and stop() called at any point. *)
(***************************************************************************)
NetData(off) == [conditions |-> [offline |-> off]]

SessionShapes ==
    { Ev("newtab", "p1", NoData),
      Ev("network_conditions_initial", "p1", NetData(FALSE)),
      Ev("network_conditions_change", "", NetData(TRUE)),
      Ev("closetab", "p1", NoData) }

InitSession ==
    /\ \E n \in 0..MaxScenario : \E sh \in [1..n -> SessionShapes] :
         events = Stamped(sh, EvenStamps(n))
    /\ speed = 10
    /\ instr = AllHooks
    /\ urlOverride = NoUrl
    /\ navError = "other"
    /\ InitEngine
    /\ RecorderIdle

SpecSession == InitSession /\ [][Next]_vars

\* the sessions the run created: the ids of the successful newCDPSession calls
SessionsCreated ==
    {log[k].v : k \in {p \in Positions : /\ IsEventCall(log[p])
                                          /\ log[p].op = "newCDPSession"
                                          /\ log[p].ok}}

Detaches(sid) == {k \in Positions : log[k].op = "detach" /\ log[k].v = sid}

CleanupCalls(op) == {k \in Positions : /\ log[k].k \in {"stop", "finally"}
                                        /\ log[k].op = op}

RunEnded == pc = "done"

\* C13: when run() has returned or rejected (the launch having been
\* attempted), every session created during the run has been detached, the
\* session map is empty, no context or browser is left open, and both
\* references are cleared -- after normal completion, after stop(), and
\* after an error that ended the run.
C13_CleanupComplete ==
    RunEnded =>
      /\ \A sid \in SessionsCreated : Detaches(sid) # {}
      /\ cdpSessions = <<>>
      /\ ~ctxOpen /\ ~browserOpen
      /\ ~context /\ ~browser

\* a stopped run that created a session, closed a context and a browser
C13_Witness ==
    /\ RunEnded /\ stopped /\ ~rejected
    /\ SessionsCreated # {}
    /\ CleanupCalls("context.close") # {}
    /\ CleanupCalls("browser.close") # {}

\* a run that completed normally with two sessions created
C13_WitnessNormal ==
    /\ RunEnded /\ ~stopped /\ ~rejected
    /\ Cardinality(SessionsCreated) = 2

\* C14 (as stated): in any interleaving of run() with stop(), the
\* context's close and the browser's close are each invoked at most once
\* and each session is detached at most once.
C14_CleanupAtMostOnce ==
    /\ Cardinality(CleanupCalls("context.close")) <= 1
    /\ Cardinality(CleanupCalls("browser.close")) <= 1
    /\ \A sid \in SessionsCreated : Cardinality(Detaches(sid)) <= 1

(***************************************************************************)
(* Tab-resolution scenarios: two tabs that open and close, and events of   *)
(* the tab-targeting types that carry a mapped pageId, no pageId, or a     *)
(* pageId (p9) that no newtab event introduces.                            *)
(***************************************************************************)
ProdLogin == Url("https", "prod.example.com", "", "/login", "?x=1", "#y")

NavData(url, type) == [url |-> url, navigationType |-> type]

KeyData == [key |-> "Enter"]

TabShapes ==
    { Ev("newtab", "p1", NoData), Ev("newtab", "p2", NoData),
      Ev("closetab", "p1", NoData),
      Ev("click", "", ClickData),
      Ev("navigation", "p9", NavData(ProdLogin, "navigate")),
      Ev("keydown", "p2", KeyData),
      Ev("network_conditions_change", "p1", NetData(FALSE)) }

InitTab ==
    /\ \E n \in 0..MaxScenario : \E sh \in [1..n -> TabShapes] :
         events = Stamped(sh, EvenStamps(n))
    /\ speed = 10
    /\ instr = AllHooks
    /\ urlOverride = NoUrl
    /\ navError = "other"
    /\ InitEngine
    /\ RecorderIdle

SpecTab == InitTab /\ [][Next]_vars

TabTargetingTypes ==
    {"navigation", "click", "input", "keydown", "scroll", "viewport_resize",
     "network_conditions_change", "network_conditions_initial"}

NetworkTypes == {"network_conditions_change", "network_conditions_initial"}

\* the step is the replay of event i by replayEvent
DispatchStep == pc = "dispatch" /\ pc' # "dispatch"

\* the entries a step adds to the log
Added == SubSeq(log', Len(log) + 1, Len(log'))

AddedCalls == SelectSeq(Added, IsEventCall)

FirstTracked == IF Len(pageMap) > 0 THEN pageMap[1].h ELSE 0

\* the tab the claim names: the mapped one if the pageId is in the map,
\* the first tracked one otherwise
StatedTab(ev) ==
    IF MapHas(pageMap, ev.pageId) THEN MapGet(pageMap, ev.pageId)
    ELSE FirstTracked

\* C16 (as stated): an event of a tab-targeting type is replayed on the
\* tab mapped to its pageId when the pageId is in the tab map and on the
\* first tracked tab otherwise, an unmapped pageId included: whenever
\* there is such a tab (and nothing failed or stopped the run) the event's
\* calls are made, and made on it.
C16_MappedOrFirstTracked_Stated ==
    [][(DispatchStep /\ events[i].type \in TabTargetingTypes
          /\ ~stopped /\ faults = 0 /\ StatedTab(events[i]) # 0)
        => /\ Len(AddedCalls) > 0
           /\ \A k \in DOMAIN AddedCalls :
                AddedCalls[k].pg = StatedTab(events[i])]_vars

\* the tab the code resolves: by pageId when the event carries one (none
\* when the map lacks it), the first tracked tab when it carries none
TabByPageId(ev) ==
    IF ev.pageId # "" THEN MapGet(pageMap, ev.pageId) ELSE FirstTracked

\* the tab of the session a network-conditions event sends on
SessionTab(ev) ==
    IF ev.type \in NetworkTypes /\ MapHas(cdpSessions, ev.pageId)
    THEN MapGet(cdpSessions, ev.pageId).pg
    ELSE TabByPageId(ev)

\* the tab the per-event hooks of an event receive
HookTab(ev) == IF ev.pageId # "" THEN MapGet(pageMap, ev.pageId) ELSE page

\* C16 (amended): an event of a tab-targeting type resolves the tab mapped
\* to its pageId when it carries a pageId and the first tracked tab when
\* it carries none; an event whose pageId is not in the map resolves no
\* tab and makes no call; every call is made on the resolved tab (a
\* network-conditions event sends on the session already created under
\* its pageId when there is one); the per-event hooks receive the mapped
\* tab, or the first tab created when the event carries no pageId.
C16_TabByPageId ==
    [][/\ (DispatchStep /\ events[i].type \in TabTargetingTypes)
          => \A k \in DOMAIN AddedCalls :
               /\ TabByPageId(events[i]) # 0
               /\ AddedCalls[k].pg = SessionTab(events[i])
       /\ \A k \in DOMAIN Added :
            (IsHook(Added[k], "onBeforeEvent") \/ IsHook(Added[k], "onAfterEvent"))
              => Added[k].pg = HookTab(events[Added[k].ev])]_vars

\* an event with a pageId that is not in the map was replayed without a
\* call while a tab was tracked, and a pageId-less event was replayed on
\* the first tracked tab, which was not the first tab created
C16_Witness ==
    /\ pc = "done" /\ ~stopped /\ faults = 0
    /\ \E d \in Positions :
         /\ IsDispatch(log[d]) /\ events[log[d].ev].pageId = "p9"
         /\ \E c \in Positions : c < d /\ log[c].op = "newPage" /\ log[c].ok
         /\ \A c \in Positions : IsEventCall(log[c]) => log[c].ev # log[d].ev

C16_WitnessFirstTracked ==
    \E c \in Positions :
      /\ IsEventCall(log[c]) /\ log[c].op = "mouse.click" /\ log[c].ok
      /\ log[c].pg = 2

(***************************************************************************)
(* Navigation scenarios: one tab, then navigation events whose targets are *)
(* an absolute URL (as a navigation and as a refresh), the same origin     *)
(* without a path, a text that is not an absolute URL, about:blank and no  *)
(* URL at all; replayed without an override and with overrides that are    *)
(* an http URL, a text whose scheme is not http(s) ("localhost:3000") and  *)
(* a text without a scheme ("localhost").                                  *)
(***************************************************************************)
ProdRoot == Url("https", "prod.example.com", "", "", "", "")
RelativeLogin == Url("", "", "", "/login", "", "")

LocalBase == Url("http", "localhost", "3000", "", "", "")
HostPortText == Url("localhost", "", "", "3000", "", "")
HostText == Url("", "", "", "localhost", "", "")

Overrides == {NoUrl, LocalBase, HostPortText, HostText}

NavTargets ==
    { NavData(ProdLogin, "navigate"), NavData(ProdLogin, "refresh"),
      NavData(ProdRoot, "navigate"), NavData(RelativeLogin, "navigate"),
      NavData(AboutBlank, "navigate"), [navigationType |-> "refresh"] }

NavShapes(n, data) ==
    [k \in 1..n |-> IF k = 1 THEN Ev("newtab", "p1", NoData)
                               ELSE Ev("navigation", "p1", data[k])]

InitNav ==
    /\ \E n \in 0..MaxScenario : \E data \in [2..n -> NavTargets] :
         events = Stamped(NavShapes(n, data), EvenStamps(n))
    /\ speed = 10
    /\ instr = AllHooks
    /\ urlOverride \in Overrides
    /\ navError = "other"
    /\ InitEngine
    /\ RecorderIdle

SpecNav == InitNav /\ [][Next]_vars

IsNavigation(ev) == ev.type = "navigation"

RecordedUrl(ev) == IF HasData(ev, "url") THEN ev.data.url ELSE NoUrl

HasTarget(ev) == RecordedUrl(ev) \notin {NoUrl, AboutBlank}

AddedGotos == SelectSeq(AddedCalls, LAMBDA e : e.op = "goto")

AddedReloads == SelectSeq(AddedCalls, LAMBDA e : e.op = "reload")

\* override's scheme+host+port followed by the original's path, query
\* and fragment unchanged
StatedRewrite(u, o) == Url(o.scheme, o.host, o.port, u.path, u.query, u.hash)

RewriteIdempotent(u, o) ==
    ReplaceBaseUrl(ReplaceBaseUrl(u, o), o) = ReplaceBaseUrl(u, o)

RecordedTargets == {RecordedUrl(events[k]) : k \in DOMAIN events}

\* C17 (as stated): with an override set, every navigation target other
\* than about:blank is loaded as the override's scheme+host+port followed
\* by the original path, query and fragment unchanged; the rewrite is
\* idempotent; without an override the recorded URL is used unchanged.
\* (URLs are compared as the browser serialises them: an empty path and
\* "/" are the same, as are a default port and none.)
C17_Rewrite_Stated ==
    [][(DispatchStep /\ IsNavigation(events[i]) /\ HasTarget(events[i]))
        => \A k \in DOMAIN AddedGotos :
             /\ Href(AddedGotos[k].v) =
                  IF urlOverride # NoUrl
                  THEN Href(StatedRewrite(RecordedUrl(events[i]), urlOverride))
                  ELSE Href(RecordedUrl(events[i]))
             /\ RewriteIdempotent(RecordedUrl(events[i]), urlOverride)]_vars

IsHttpUrl(u) == u.scheme \in {"http", "https"} /\ u.host # ""

IsAbsoluteUrl(u) == u.scheme # ""

\* scheme://host[:port], the port left out when it is the scheme's default
HttpOrigin(o) ==
    [scheme |-> o.scheme, host |-> o.host,
     port |-> IF <<o.scheme, o.port>> \in {<<"http", "80">>, <<"https", "443">>}
              THEN "" ELSE o.port]

\* origin of the override, then path ("/" for an empty one), query and
\* fragment of the original as the URL parser gives them
OriginRewrite(u, o) ==
    Url(HttpOrigin(o).scheme, HttpOrigin(o).host, HttpOrigin(o).port,
        IF u.path = "" THEN "/" ELSE u.path,
        IF u.query = "?" THEN "" ELSE u.query,
        IF u.hash = "#" THEN "" ELSE u.hash)

\* C17 (amended): with an override that is an http(s) URL, every http(s)
\* navigation target is loaded as the override's origin followed by the
\* original's path, query and fragment as parsed; a target that is not an
\* absolute URL is used unchanged, as is every target when the override is
\* not an absolute URL or when there is no override; the rewrite of a
\* recorded target is idempotent.
C17_RewriteParsed ==
    [][(DispatchStep /\ IsNavigation(events[i]) /\ HasTarget(events[i]))
        => LET u == RecordedUrl(events[i])
           IN  \A k \in DOMAIN AddedGotos :
                 /\ (IsHttpUrl(urlOverride) /\ IsHttpUrl(u))
                      => AddedGotos[k].v = OriginRewrite(u, urlOverride)
                 /\ (~IsAbsoluteUrl(u) \/ ~IsAbsoluteUrl(urlOverride))
                      => AddedGotos[k].v = u
                 /\ RewriteIdempotent(u, urlOverride)]_vars

\* the recorded https://prod.example.com/login?x=1#y was loaded as
\* http://localhost:3000/login?x=1#y
C17_Witness ==
    /\ urlOverride = LocalBase
    /\ \E c \in Positions :
         /\ IsEventCall(log[c]) /\ log[c].op = "goto" /\ log[c].ok
         /\ RecordedUrl(events[log[c].ev]) = ProdLogin
         /\ log[c].v = Url("http", "localhost", "3000", "/login", "?x=1", "#y")
         /\ pageUrls[log[c].pg] = log[c].v

\* C18: a navigation event with target T replayed on a tab whose URL is C
\* reloads iff the type is refresh and C = T, loads T iff C # T, and makes
\* no navigation call iff C = T and the type is not refresh; without a
\* target, or with about:blank as the target, it makes no call.
C18_ReloadOrGoto ==
    [][(DispatchStep /\ IsNavigation(events[i]) /\ TabByPageId(events[i]) # 0)
        => LET T == TargetUrl(events[i], EngineState)
               C == pageUrls[TabByPageId(events[i])]
               refresh == /\ HasData(events[i], "navigationType")
                          /\ events[i].data.navigationType = "refresh"
           IN  IF T \in {NoUrl, AboutBlank}
               THEN Len(AddedCalls) = 0
               ELSE /\ Len(AddedReloads) = 1 <=> (refresh /\ C = T)
                    /\ Len(AddedGotos) = 1 <=> C # T
                    /\ Len(AddedCalls) = 0 <=> (C = T /\ ~refresh)
                    /\ Len(AddedCalls) <= 1
                    /\ \A k \in DOMAIN AddedGotos : AddedGotos[k].v = T]_vars

\* a run that loaded a URL, then reloaded it on a refresh of the same URL
C18_Witness ==
    \E g, r \in Positions :
      /\ g < r
      /\ IsEventCall(log[g]) /\ log[g].op = "goto" /\ log[g].ok
      /\ IsEventCall(log[r]) /\ log[r].op = "reload" /\ log[r].ok
      /\ log[r].pg = log[g].pg

\* a navigation to the URL the tab already shows made no call
C18_WitnessNoCall ==
    \E g, d \in Positions :
      /\ g < d
      /\ IsEventCall(log[g]) /\ log[g].op = "goto" /\ log[g].ok
      /\ IsDispatch(log[d]) /\ log[d].op = "navigation" /\ log[d].ev > log[g].ev
      /\ HasTarget(events[log[d].ev])
      /\ \A c \in Positions : IsEventCall(log[c]) => log[c].ev # log[d].ev
      /\ pc = "done" /\ ~stopped /\ faults = 0

(***************************************************************************)
(* Network scenarios: one tab, then network-conditions events that turn    *)
(* offline emulation on and off and navigations, whose failures carry a    *)
(* connectivity message (net::ERR_NAME_NOT_RESOLVED, ...) or another one.   *)
(***************************************************************************)
NavErrors == {"connectivity", "other"}

NetShapes ==
    { Ev("network_conditions_change", "p1", NetData(TRUE)),
      Ev("network_conditions_change", "p1", NetData(FALSE)),
      Ev("navigation", "p1", NavData(ProdLogin, "navigate")),
      Ev("navigation", "p1", NavData(ProdLogin, "refresh")) }

InitNet ==
    /\ \E n \in 0..MaxScenario : \E sh \in [2..n -> NetShapes] :
         events = Stamped([k \in 1..n |-> IF k = 1
                                          THEN Ev("newtab", "p1", NoData)
                                          ELSE sh[k]],
                          EvenStamps(n))
    /\ speed = 10
    /\ instr = AllHooks
    /\ urlOverride = NoUrl
    /\ navError \in NavErrors
    /\ InitEngine
    /\ RecorderIdle

SpecNet == InitNet /\ [][Next]_vars

IsReport(e) == e.k = "report"

AddedReports == SelectSeq(Added, IsReport)

\* C19 (as stated): a navigation failure is treated as expected only when
\* the tab is offline-emulated at that moment (the latest network
\* conditions applied have offline = true); otherwise it is reported as
\* an error; and the failure never escapes the navigation step.
C19_ExpectedOnlyWhenOffline ==
    [][DispatchStep
        => /\ \A k \in DOMAIN AddedReports :
                AddedReports[k].op = "expected"
                  => AddedReports[k].pg \in OfflineTabs
           /\ IsNavigation(events[i]) => pc' # "pace"]_vars

\* what the code does: the report depends on the message alone (a failure
\* is expected when its message is of the connectivity kind, which is what
\* a live offline-emulated tab gives and what the environment may give)
ReportFollowsMessage ==
    [][DispatchStep
        => /\ \A k \in DOMAIN AddedReports :
                AddedReports[k].op = "expected"
                  <=> \/ AddedReports[k].pg \in OfflineTabs \ closedPages
                      \/ /\ navError = "connectivity"
                         /\ AddedReports[k].pg \notin closedPages
           /\ Len(AddedReports) = Len(SelectSeq(AddedCalls,
                                     LAMBDA e : e.op \in {"goto", "reload"} /\ ~e.ok))
           /\ IsNavigation(events[i]) => pc' # "pace"]_vars

OfflineFailureExpected ==
    \E r \in Positions :
      /\ IsReport(log[r]) /\ log[r].op = "expected" /\ faults = 0

(***************************************************************************)
(* Preset matching: detectNetworkConditionsChange applied to conditions    *)
(* whose throughputs are those of the presets (and two of no preset) and   *)
(* whose latencies lie at, next to and 10 ms from the presets' latencies.  *)
(***************************************************************************)
PresetLatencies == {NetworkPresets[k].conditions.latency : k \in DOMAIN NetworkPresets}

Latencies ==
    {HalfMs(560), HalfMs(9999)} \cup
    {l \in 0..HalfMs(2011) :
       \E c \in PresetLatencies :
         Abs(l - c) \in {0, 1, LatencyVariance - 1, LatencyVariance,
                         LatencyVariance + 1}}

ThroughputPairs ==
    {<<NetworkPresets[k].conditions.downloadThroughput,
       NetworkPresets[k].conditions.uploadThroughput>> : k \in DOMAIN NetworkPresets}
    \cup {<<150 * 1024, 50 * 1024>>, <<1000, 1000>>}

InitPreset ==
    /\ events = <<>> /\ speed = 10 /\ instr = AllHooks
    /\ urlOverride = NoUrl /\ navError = "other"
    /\ InitEngine
    /\ \E off \in BOOLEAN, t \in ThroughputPairs, l \in Latencies :
         newConditions = Conditions(off, t[1], t[2], l)
    /\ presetName = NoLabel
    /\ compiled = NotCompiled
    /\ hasBrowser = FALSE
    /\ InitRecorder

NextPreset == Detect

SpecPreset == InitPreset /\ [][NextPreset]_vars

Detected == presetName # NoLabel

PresetNames == {NetworkPresets[k].name : k \in DOMAIN NetworkPresets}

PresetNamed(name) ==
    NetworkPresets[CHOOSE k \in DOMAIN NetworkPresets :
                     NetworkPresets[k].name = name].conditions

\* equal offline flag and throughputs
SameButLatency(c, new) ==
    /\ c.offline = new.offline
    /\ c.downloadThroughput = new.downloadThroughput
    /\ c.uploadThroughput = new.uploadThroughput

Within10ms(c, new) ==
    SameButLatency(c, new) /\ Abs(c.latency - new.latency) <= HalfMs(10)

LessThan10ms(c, new) ==
    SameButLatency(c, new) /\ Abs(c.latency - new.latency) < HalfMs(10)

IsCustom(label, new) ==
    /\ label.name = "Custom"
    /\ label.detail[1] = (IF new.offline THEN "Offline" ELSE "Online")
    /\ label.detail[4] = new.latency

\* C20 (as stated): the result is a preset's name exactly when flag and
\* throughputs equal the preset's and the latency is within 10 ms of the
\* preset's; it is a Custom label for every other input; no input matches
\* more than one preset.
C20_Within10ms_Stated ==
    Detected =>
      /\ \A n \in PresetNames :
           presetName = PresetLabel(n) <=> Within10ms(PresetNamed(n), newConditions)
      /\ (\A n \in PresetNames : ~Within10ms(PresetNamed(n), newConditions))
           => IsCustom(presetName, newConditions)
      /\ Cardinality({n \in PresetNames :
                        Within10ms(PresetNamed(n), newConditions)}) <= 1

\* C20 (amended): the same with the latency strictly less than 10 ms from
\* the preset's.
C20_LessThan10ms ==
    Detected =>
      /\ \A n \in PresetNames :
           presetName = PresetLabel(n) <=> LessThan10ms(PresetNamed(n), newConditions)
      /\ (\A n \in PresetNames : ~LessThan10ms(PresetNamed(n), newConditions))
           => IsCustom(presetName, newConditions)
      /\ Cardinality({n \in PresetNames :
                        LessThan10ms(PresetNamed(n), newConditions)}) <= 1

\* online 153600 / 76800 with latency 560 was detected as Fast 3G
C20_Witness ==
    /\ newConditions = Conditions(FALSE, 153600, 76800, HalfMs(560))
    /\ presetName = PresetLabel("Fast 3G")

\* the same throughputs with latency 9999 gave a Custom label
C20_WitnessCustom ==
    /\ newConditions = Conditions(FALSE, 153600, 76800, HalfMs(9999))
    /\ Detected /\ IsCustom(presetName, newConditions)
    /\ presetName.detail[2] = 150 /\ presetName.detail[3] = 75

(***************************************************************************)
(* Unreplayed-type scenarios: a tab, a click, and events of the types the  *)
(* switch of replayEvent has no case for, with and without a pageId.       *)
(***************************************************************************)
UnknownShapes ==
    { Ev("newtab", "p1", NoData),
      Ev("click", "p1", ClickData),
      Ev("mousemove", "", NoData),
      Ev("focus", "p1", NoData),
      Ev("submit", "", NoData),
      Ev("tracking_initialized", "p1", NoData) }

InitUnknown ==
    /\ \E n \in 0..MaxScenario : \E sh \in [1..n -> UnknownShapes] :
         events = Stamped(sh, EvenStamps(n))
    /\ speed = 10
    /\ instr = AllHooks
    /\ urlOverride = NoUrl
    /\ navError = "other"
    /\ InitEngine
    /\ RecorderIdle

SpecUnknown == InitUnknown /\ [][Next]_vars

Unreplayed(e) == events[e].type \notin ReplayedTypes

PaceStep == pc = "pace" /\ pc' # "pace"

(***************************************************************************)
(* C28: the dispatch of an event of an unreplayed type makes no            *)
(* automation call, leaves the tab map, the closed tabs, the tab URLs and  *)
(* the session map as they were, returns without throwing (the loop goes   *)
(* on to the onAfterEvent step, the run does not reject), and the step     *)
(* that ends the event adds nothing but its pacing wait.                   *)
(***************************************************************************)
C28_UnknownNoOp ==
    [][ /\ (DispatchStep /\ Unreplayed(i)) =>
             /\ Added = <<Entry("dispatch", i, events[i].type, 0, TRUE, 0)>>
             /\ pageMap' = pageMap /\ closedPages' = closedPages
             /\ pageUrls' = pageUrls /\ cdpSessions' = cdpSessions
             /\ result' = 0 /\ page' = page
             /\ pc' = "after" /\ rejected' = rejected /\ faults' = faults
        /\ (PaceStep /\ Unreplayed(i)) =>
             /\ \A k \in DOMAIN Added :
                  Added[k].k = "wait" /\ Added[k].v = PacingWait(events, i, delay)
             /\ Len(Added) <= 1
             /\ i' = i + 1 ]_vars

\* a focus event between a newtab and a click: it was dispatched without a
\* call, its wait was made, and the click after it was replayed
C28_Witness ==
    /\ pc = "done" /\ Len(events) = 3
    /\ events[1].type = "newtab" /\ events[2].type = "focus"
    /\ events[3].type = "click"
    /\ \E a \in Positions : IsDispatch(log[a]) /\ log[a].ev = 2 /\ log[a].ok
    /\ \A a \in Positions : log[a].ev = 2 => log[a].k \in {"dispatch", "hook", "wait"}
    /\ WaitOf(2) = 500
    /\ \E a \in Positions : IsEventCall(log[a]) /\ log[a].ev = 3

(***************************************************************************)
(* C29: the steps of the loop are in sequence: in the order in which they  *)
(* are made, the entries of event e (its onBeforeEvent, its dispatch, the  *)
(* automation calls of the dispatch, setup, its onAfterEvent, its pacing   *)
(* wait) come in that order, each at most once but for the calls, and      *)
(* every entry of event e comes before every entry of a later event and    *)
(* before onComplete.                                                      *)
(***************************************************************************)
IsLoopEntry(e) ==
    \/ IsEventCall(e) \/ IsDispatch(e)
    \/ e.k = "wait"
    \/ e.k = "hook"

Phase(e) ==
    CASE IsHook(e, "onBeforeEvent") -> 1
      [] IsDispatch(e) -> 2
      [] IsEventCall(e) -> 3
      [] IsHook(e, "setup") -> 4
      [] IsHook(e, "onAfterEvent") -> 5
      [] e.k = "wait" -> 6
      [] OTHER -> 7

LoopEntries == SelectSeq(log, IsLoopEntry)

C29_Sequential ==
    LET S == LoopEntries
    IN  \A k \in 1..(Len(S) - 1) :
          \/ Phase(S[k + 1]) = 7 /\ Phase(S[k]) < 7
          \/ Phase(S[k + 1]) < 7 /\ S[k].ev < S[k + 1].ev
          \/ /\ S[k].ev = S[k + 1].ev
             /\ \/ Phase(S[k]) < Phase(S[k + 1])
                \/ Phase(S[k]) = 3 /\ Phase(S[k + 1]) = 3

\* a run of newtab, click, focus with every hook: event 1 has all six
\* phases, and onComplete came last
C29_Witness ==
    /\ pc = "done" /\ Len(events) = 3
    /\ events[1].type = "newtab" /\ events[2].type = "click"
    /\ {Phase(LoopEntries[k]) : k \in {k \in DOMAIN LoopEntries : LoopEntries[k].ev = 1}}
         = 1..6 \ {1}
    /\ {Phase(LoopEntries[k]) : k \in {k \in DOMAIN LoopEntries : LoopEntries[k].ev = 2}}
         = {1, 2, 3, 5, 6}
    /\ Phase(LoopEntries[Len(LoopEntries)]) = 7

(***************************************************************************)
(* Hook-source scenarios: instrumentation functions that give one set of   *)
(* hooks when called with the mock handle and another (or throw, or give   *)
(* no object) when called with the first tab.                              *)
(***************************************************************************)
Factory(onMock, onReal) == [shape |-> "factory", onMock |-> onMock, onReal |-> onReal]

Gives(names) == [res |-> "hooks", names |-> names]

HookSources ==
    { AllHooks, [shape |-> "falsy"],
      Factory(Gives({"setup", "onBeforeEvent", "onComplete"}), Gives({"onAfterEvent"})),
      Factory(Gives({"onAfterEvent"}), Gives({"setup", "onBeforeEvent", "onComplete"})),
      Factory(Gives(HookNames), [res |-> "throw"]),
      Factory(Gives(HookNames), [res |-> "prim"]) }

HookShapes ==
    { Ev("newtab", "p1", NoData), Ev("click", "p1", ClickData),
      Ev("closetab", "p1", NoData), Ev("mousemove", "", NoData) }

InitHooks ==
    /\ \E n \in 0..MaxScenario : \E sh \in [1..n -> HookShapes] :
         events = Stamped(sh, EvenStamps(n))
    /\ speed = 10
    /\ instr \in HookSources
    /\ urlOverride = NoUrl
    /\ navError = "other"
    /\ InitEngine
    /\ RecorderIdle

SpecHooks == InitHooks /\ [][Next]_vars

\* the hooks the provisional normalization (mock handle) yields
ProvisionalHooks == NormalizeToHooks(CompileHooksValue(instr), TRUE)

HooksInvoked == {log[a].op : a \in {a \in Positions : log[a].k = "hook"}}

(***************************************************************************)
(* C30: every hook that is invoked is a hook of the normalization against  *)
(* the first tab: no hook is invoked while there is no first tab, from     *)
(* the first tab on the hooks in use are those of the normalization        *)
(* against it (none when the function throws or gives no object there),    *)
(* so a hook that only the normalization against the mock handle yields    *)
(* is never invoked, and setup, when invoked, is the setup of the          *)
(* normalization against the first tab.                                    *)
(***************************************************************************)
C30_AuthoritativeHooks ==
    /\ HooksInvoked \subseteq LoadedHooks
    /\ HooksInvoked \cap (ProvisionalHooks \ LoadedHooks) = {}
    /\ page = 0 => HooksInvoked = {}
    /\ page # 0 => pendingHooks = LoadedHooks

\* the function gives onAfterEvent for the mock handle and the three other
\* hooks for the tab: the three were invoked, onAfterEvent was not
C30_Witness ==
    /\ pc = "done"
    /\ ProvisionalHooks = {"onAfterEvent"}
    /\ HooksInvoked = {"setup", "onBeforeEvent", "onComplete"}

\* the function gives every hook for the mock handle and throws for the
\* tab: the run ended with a tab and no hook invoked
C30_WitnessThrows ==
    /\ pc = "done" /\ page # 0 /\ Len(events) = 2
    /\ ProvisionalHooks = HookNames /\ LoadedHooks = {}
    /\ HooksInvoked = {}

(***************************************************************************)
(* Capture: BrowserRecorder (src/src/recorder.ts) driven by the record     *)
(* command (src/src/cli.ts 82-151).                                        *)
(*                                                                         *)
(* A tab is its index in tabs.  A call of setupPageTracking is its index   *)
(* in setups, which is also the pageId it generates (the ids are fresh).   *)
(* Every await of the code is a suspension point: a handler is one action  *)
(* per piece of synchronous code.  The continuation of an await whose      *)
(* promise is already settled (a microtask) runs within the same action.   *)
(* Date.now() is clock; time passes when the environment acts (a tab is    *)
(* opened or closed, the user does something, a request arrives, the       *)
(* browser goes away, Ctrl+C), at most MaxStimuli times.                   *)
(***************************************************************************)
MaxStimuli == 3

\* the tabs a session has: the context's first tab and one the user opens
TabIds == {1, 2}

\* nothing of the replay engine moves
EngineIdle ==
    UNCHANGED <<inputs, pc, i, delay, result, rejected, returned, browser,
                context, browserOpen, ctxOpen, pageMap, page, closedPages,
                pageUrls, cdpSessions, fi, pendingHooksValue, pendingHooks,
                finalResults, stopped, spc, si, faults, stops, log,
                compiled, newConditions, presetName, hasBrowser>>

\* nor does a "load" handler or a network-control request
ReplayIdle ==
    /\ EngineIdle
    /\ UNCHANGED <<loadState, loadCalls, sent, requests>>

CanAct == clock < MaxStimuli /\ ~exited

BrowserAlive == cliPc # "created" /\ disconnect.pc = "none"

StampOrigin(now, origin) == origin

\* recorder.ts 98-100: timestamp: Date.now() of the addEvent call
Stamp(now, origin) == now

\* recorder.ts 97-108: the event addEvent appends.  tab (the tab the event
\* comes from, 0 for a network-control request) and origin (when it
\* happened there) are not fields of the record the code builds from.
AddEvent(evs, cur, now, ev) ==
    Append(evs, [type |-> ev.type, pageId |-> cur, timestamp |-> Stamp(now, ev.origin),
                 dataPageId |-> ev.dataPageId, conditions |-> ev.conditions,
                 tab |-> ev.tab])

RecEv(type, tab, dataPageId, conditions, origin) ==
    [type |-> type, tab |-> tab, dataPageId |-> dataPageId,
     conditions |-> conditions, origin |-> origin]

NewSetup(tab, awaited) ==
    [tab |-> tab, pc |-> "title", awaited |-> awaited, listening |-> FALSE,
     closing |-> "none", closedAt |-> 0]

MarkTrackedNever(tracked, tab) == tracked

\* recorder.ts 223-224: this.trackedPages.add(page)
MarkTracked(tracked, tab) == tracked \cup {tab}

\* recorder.ts 190, 199, 205: if (!this.trackedPages.has(page))
\*   setupPageTracking(page), up to its first await (page.title())
TrackOnce(tab, awaited) ==
    IF tab \in trackedPages
    THEN UNCHANGED <<trackedPages, setups>>
    ELSE /\ trackedPages' = MarkTracked(trackedPages, tab)
         /\ setups' = Append(setups, NewSetup(tab, awaited))

\* cli.ts 96, recorder.ts 130-189: startRecording up to the registration
\* of the pages; the context has its first tab (found, or made by
\* newPage()), whose "page" signal may still be delivered
StartRecording ==
    /\ cliPc = "created" /\ ~exited
    /\ isRecording' = TRUE
    /\ tabs' = <<"open">>
    /\ \E sig \in BOOLEAN : pageSignals' = IF sig THEN {1} ELSE {}
    /\ cliPc' = "register"
    /\ UNCHANGED <<setups, trackedPages, pages, currentPageId, recSessions,
                   browserClosedCallback, currentNetworkPreset,
                   currentNetworkConditions, recEvents, clock, disconnect,
                   timers, resolved, stopPc, written, exited>>
    /\ ReplayIdle

\* recorder.ts 195-220, cli.ts 98-131: startRecording returns; the record
\* action registers its callback and its SIGINT handler and waits
Started == cliPc' = "waiting" /\ browserClosedCallback' = TRUE

\* recorder.ts 195-210: startRecording registers the first tab
RegisterPage ==
    /\ cliPc = "register" /\ ~exited
    /\ TrackOnce(1, TRUE)
    /\ IF 1 \in trackedPages
       THEN Started
       ELSE cliPc' = "setup" /\ UNCHANGED browserClosedCallback
    /\ UNCHANGED <<tabs, pageSignals, pages, currentPageId, recSessions,
                   isRecording, currentNetworkPreset, currentNetworkConditions,
                   recEvents, clock, disconnect, timers, resolved, stopPc,
                   written, exited>>
    /\ ReplayIdle

\* recorder.ts 189-193: the context's "page" handler
PageSignal(t) ==
    /\ t \in pageSignals /\ ~exited
    /\ pageSignals' = pageSignals \ {t}
    /\ TrackOnce(t, FALSE)
    /\ UNCHANGED <<tabs, pages, currentPageId, recSessions, isRecording,
                   browserClosedCallback, currentNetworkPreset,
                   currentNetworkConditions, recEvents, clock, cliPc,
                   disconnect, timers, resolved, stopPc, written, exited>>
    /\ ReplayIdle

\* a rejected setupPageTracking: startRecording, if it awaits that call,
\* rejects, and with it the record action (cli.ts 96)
SetupFails(k) ==
    /\ setups' = [setups EXCEPT ![k].pc = "failed"]
    /\ IF setups[k].awaited
       THEN cliPc' = "failed" /\ exited' = TRUE
       ELSE UNCHANGED <<cliPc, exited>>

\* recorder.ts 226-237: page.title() settles; the PageInfo is stored
SetupTitle(k) ==
    /\ setups[k].pc = "title" /\ ~exited
    /\ IF tabs[setups[k].tab] = "open"
       THEN /\ pages' = Append(pages, [id |-> k, tab |-> setups[k].tab])
            /\ currentPageId' = k
            /\ setups' = [setups EXCEPT ![k].pc = "cdp"]
            /\ UNCHANGED <<cliPc, exited>>
       ELSE /\ SetupFails(k)
            /\ UNCHANGED <<pages, currentPageId>>
    /\ UNCHANGED <<tabs, pageSignals, trackedPages, recSessions, isRecording,
                   browserClosedCallback, currentNetworkPreset,
                   currentNetworkConditions, recEvents, clock, disconnect,
                   timers, resolved, stopPc, written>>
    /\ ReplayIdle

\* recorder.ts 239-388: the session is made and enabled (or the attempt
\* throws, which is caught), network_conditions_initial and newtab are
\* appended, the listeners are registered
SetupSession(k) ==
    /\ setups[k].pc = "cdp" /\ ~exited
    /\ LET tab == setups[k].tab
           ok == tabs[tab] = "open"
           initial == RecEv("network_conditions_initial", tab, k,
                            DefaultConditions, clock)
           newtab == RecEv("newtab", tab, k, NoConditions, clock)
           evs == IF ok THEN AddEvent(recEvents, currentPageId, clock, initial)
                  ELSE recEvents
       IN  /\ recSessions' = IF ok THEN recSessions \cup {k} ELSE recSessions
           /\ currentNetworkConditions' =
                IF ok THEN DefaultConditions ELSE currentNetworkConditions
           /\ recEvents' = AddEvent(evs, currentPageId, clock, newtab)
           /\ setups' = [setups EXCEPT ![k].pc = "script", ![k].listening = TRUE]
    /\ UNCHANGED <<tabs, pageSignals, trackedPages, pages, currentPageId,
                   isRecording, browserClosedCallback, currentNetworkPreset,
                   clock, cliPc, disconnect, timers, resolved, stopPc,
                   written, exited>>
    /\ ReplayIdle

\* recorder.ts 415-599: page.addInitScript settles; setupPageTracking
\* returns, and startRecording, if it awaited this call, returns
SetupScript(k) ==
    /\ setups[k].pc = "script" /\ ~exited
    /\ IF tabs[setups[k].tab] = "open"
       THEN /\ setups' = [setups EXCEPT ![k].pc = "done"]
            /\ IF setups[k].awaited
               THEN Started
               ELSE UNCHANGED <<cliPc, browserClosedCallback>>
            /\ UNCHANGED exited
       ELSE /\ SetupFails(k)
            /\ UNCHANGED browserClosedCallback
    /\ UNCHANGED <<tabs, pageSignals, trackedPages, pages, currentPageId,
                   recSessions, isRecording, currentNetworkPreset,
                   currentNetworkConditions, recEvents, clock, disconnect,
                   timers, resolved, stopPc, written>>
    /\ ReplayIdle

Indices(s) == [k \in 1..Len(s) |-> k]

\* the setupPageTracking calls whose listeners are registered on tab t
Listening(t) ==
    SelectSeq(Indices(setups),
              LAMBDA k : setups[k].tab = t /\ setups[k].listening)

RECURSIVE AddEvents(_, _, _, _)
AddEvents(evs, cur, now, new) ==
    IF new = <<>> THEN evs
    ELSE AddEvents(AddEvent(evs, cur, now, new[1]), cur, now, Tail(new))

UserKinds == {"click", "navigation"}

\* recorder.ts 280-322 (the "load" handler: a navigation event, which
\* carries the pageId of its setupPageTracking call) and 391-411 (the
\* "console" handler: a TRACK: message of the page script, which carries
\* none), once per registered listener
UserEvent(t, kind) ==
    /\ CanAct /\ t \in DOMAIN tabs /\ tabs[t] = "open"
    /\ Listening(t) # <<>>
    /\ clock' = clock + 1
    /\ LET L == Listening(t)
           new == [j \in 1..Len(L) |->
                     RecEv(kind, t, IF kind = "navigation" THEN L[j] ELSE 0,
                           NoConditions, clock')]
       IN  recEvents' = AddEvents(recEvents, currentPageId, clock', new)
    /\ UNCHANGED <<tabs, pageSignals, setups, trackedPages, pages,
                   currentPageId, recSessions, isRecording,
                   browserClosedCallback, currentNetworkPreset,
                   currentNetworkConditions, cliPc, disconnect, timers,
                   resolved, stopPc, written, exited>>
    /\ ReplayIdle

\* the user opens a tab: the context emits "page"
OpenTab ==
    /\ CanAct /\ BrowserAlive /\ Len(tabs) + 1 \in TabIds
    /\ clock' = clock + 1
    /\ tabs' = Append(tabs, "open")
    /\ pageSignals' = pageSignals \cup {Len(tabs) + 1}
    /\ UNCHANGED <<setups, trackedPages, pages, currentPageId, recSessions,
                   isRecording, browserClosedCallback, currentNetworkPreset,
                   currentNetworkConditions, recEvents, cliPc, disconnect,
                   timers, resolved, stopPc, written, exited>>
    /\ ReplayIdle

\* the tabs of T go away: their "close" is emitted to the listeners that
\* are registered by then
CloseTabs(s, T, at) ==
    [k \in DOMAIN s |->
       IF s[k].tab \in T /\ s[k].listening /\ s[k].closing = "none"
       THEN [s[k] EXCEPT !.closing = "pending", !.closedAt = at]
       ELSE s[k]]

AllClosed(ts) == [k \in DOMAIN ts |-> "closed"]

TabsOpen == {k \in DOMAIN tabs : tabs[k] = "open"}

\* the user closes tab t
CloseTab(t) ==
    /\ CanAct /\ t \in TabsOpen
    /\ clock' = clock + 1
    /\ tabs' = [tabs EXCEPT ![t] = "closed"]
    /\ setups' = CloseTabs(setups, {t}, clock')
    /\ UNCHANGED <<pageSignals, trackedPages, pages, currentPageId,
                   recSessions, isRecording, browserClosedCallback,
                   currentNetworkPreset, currentNetworkConditions, recEvents,
                   cliPc, disconnect, timers, resolved, stopPc, written,
                   exited>>
    /\ ReplayIdle

\* the browser goes away (its window is closed, it is killed, or
\* browser.close() is called): every tab closes, "disconnected" is
\* emitted to the handler of recorder.ts 166-187, registered only if
\* context.browser() gave a browser
BrowserGone(at) ==
    /\ tabs' = AllClosed(tabs)
    /\ setups' = CloseTabs(setups, TabsOpen, at)
    /\ disconnect' = [disconnect EXCEPT !.pc = IF hasBrowser THEN "pending" ELSE "done"]

\* the user closes the browser
BrowserClose ==
    /\ CanAct /\ BrowserAlive
    /\ clock' = clock + 1
    /\ BrowserGone(clock')
    /\ UNCHANGED <<pageSignals, trackedPages, pages, currentPageId,
                   recSessions, isRecording, browserClosedCallback,
                   currentNetworkPreset, currentNetworkConditions, recEvents,
                   cliPc, timers, resolved, stopPc, written, exited>>
    /\ ReplayIdle

\* recorder.ts 376-388: the tab that becomes current, and whether the
\* callback is scheduled
Remaining(pgs, cur, callback) ==
    IF Len(pgs) > 0
    THEN [current |-> pgs[1].id, timer |-> 0]
    ELSE [current |-> cur, timer |-> IF callback THEN 1 ELSE 0]

WithoutNone(pgs, id) == pgs

\* recorder.ts 358: this.pages.delete(pageId)
Without(pgs, id) == SelectSeq(pgs, LAMBDA e : e.id # id)

\* recorder.ts 353-374: the "close" handler up to the detach of the tab's
\* session, or to its end when the tab has no session
CloseHandler(k) ==
    /\ setups[k].closing = "pending" /\ ~exited
    /\ recEvents' = AddEvent(recEvents, currentPageId, clock,
                             RecEv("closetab", setups[k].tab, k, NoConditions,
                                   setups[k].closedAt))
    /\ pages' = Without(pages, k)
    /\ trackedPages' = trackedPages \ {setups[k].tab}
    /\ IF k \in recSessions
       THEN /\ setups' = [setups EXCEPT ![k].closing = "detach"]
            /\ UNCHANGED <<currentPageId, timers>>
       ELSE LET r == Remaining(pages', currentPageId, browserClosedCallback)
            IN  /\ setups' = [setups EXCEPT ![k].closing = "done"]
                /\ currentPageId' = r.current
                /\ timers' = timers + r.timer
    /\ UNCHANGED <<tabs, pageSignals, recSessions, isRecording,
                   browserClosedCallback, currentNetworkPreset,
                   currentNetworkConditions, clock, cliPc, disconnect,
                   resolved, stopPc, written, exited>>
    /\ ReplayIdle

\* recorder.ts 369-388: the detach settles
CloseResume(k) ==
    /\ setups[k].closing = "detach" /\ ~exited
    /\ recSessions' = recSessions \ {k}
    /\ LET r == Remaining(pages, currentPageId, browserClosedCallback)
       IN  /\ currentPageId' = r.current
           /\ timers' = timers + r.timer
    /\ setups' = [setups EXCEPT ![k].closing = "done"]
    /\ UNCHANGED <<tabs, pageSignals, trackedPages, pages, isRecording,
                   browserClosedCallback, currentNetworkPreset,
                   currentNetworkConditions, recEvents, clock, cliPc,
                   disconnect, resolved, stopPc, written, exited>>
    /\ ReplayIdle

\* recorder.ts 384-386, cli.ts 100-104: the timer fires; the callback
\* resolves browserClosedPromise
TimerFires ==
    /\ timers > 0 /\ ~exited
    /\ timers' = timers - 1
    /\ resolved' = TRUE
    /\ UNCHANGED <<tabs, pageSignals, setups, trackedPages, pages,
                   currentPageId, recSessions, isRecording,
                   browserClosedCallback, currentNetworkPreset,
                   currentNetworkConditions, recEvents, clock, cliPc,
                   disconnect, stopPc, written, exited>>
    /\ ReplayIdle

\* recorder.ts 182-186: sessions cleared, callback called if it was recording
DisconnectedEnd(was) ==
    /\ recSessions' = {}
    /\ resolved' = (resolved \/ (browserClosedCallback /\ was))

\* recorder.ts 166-180: the "disconnected" handler up to its first detach
Disconnected ==
    /\ disconnect.pc = "pending" /\ ~exited
    /\ isRecording' = FALSE
    /\ IF recSessions # {}
       THEN /\ disconnect' = [pc |-> "detach", wasRecording |-> isRecording]
            /\ UNCHANGED <<recSessions, resolved>>
       ELSE /\ disconnect' = [pc |-> "done", wasRecording |-> isRecording]
            /\ DisconnectedEnd(isRecording)
    /\ UNCHANGED <<tabs, pageSignals, setups, trackedPages, pages,
                   currentPageId, browserClosedCallback, currentNetworkPreset,
                   currentNetworkConditions, recEvents, clock, cliPc, timers,
                   stopPc, written, exited>>
    /\ ReplayIdle

\* recorder.ts 174-186: the detaches settle
DisconnectedResume ==
    /\ disconnect.pc = "detach" /\ ~exited
    /\ disconnect' = [disconnect EXCEPT !.pc = "done"]
    /\ DisconnectedEnd(disconnect.wasRecording)
    /\ UNCHANGED <<tabs, pageSignals, setups, trackedPages, pages,
                   currentPageId, isRecording, browserClosedCallback,
                   currentNetworkPreset, currentNetworkConditions, recEvents,
                   clock, cliPc, timers, stopPc, written, exited>>
    /\ ReplayIdle

\* recorder.ts 744-746, 215: the WebSocket server listens once
\* startRecording is past its page registration
ServerListening == cliPc \in {"waiting", "stopping"}

Change(conditions, now) ==
    RecEv("network_conditions_change", 0, currentPageId, conditions, now)

RecordChangeAlways(conditions, now) ==
    recEvents' = AddEvent(recEvents, currentPageId, now, Change(conditions, now))

\* recorder.ts 722-732, 785-795, 804-814: if (this.isRecording) addEvent
RecordChange(conditions, now) ==
    recEvents' = IF isRecording
                 THEN AddEvent(recEvents, currentPageId, now, Change(conditions, now))
                 ELSE recEvents

SlowLink == Conditions(FALSE, 1000, 1000, HalfMs(100))

RequestedPresets == {"Fast 3G", "No throttling"}

\* recorder.ts 706-718, 774-786: Network.emulateNetworkConditions goes to
\* every session of this.cdpSessions
SendToAll(conditions) == [k \in recSessions |-> conditions]

\* recorder.ts 689-733: applyNetworkConditions(presetName, true)
ApplyNetworkConditions(name, now) ==
    IF name \notin PresetNames \/ currentNetworkPreset = name
    THEN UNCHANGED <<currentNetworkPreset, currentNetworkConditions,
                     recEvents, sent>>
    ELSE /\ currentNetworkConditions' = PresetNamed(name)
         /\ currentNetworkPreset' = name
         /\ sent' = SendToAll(PresetNamed(name))
         /\ RecordChange(PresetNamed(name), now)

\* recorder.ts 769-798: the conditions of a message without preset
ApplyCustom(conditions, now) ==
    /\ currentNetworkConditions' = conditions
    /\ currentNetworkPreset' = "Custom"
    /\ sent' = SendToAll(conditions)
    /\ RecordChange(conditions, now)

\* recorder.ts 762-768, 689-743: an applyNetworkConditions message with a
\* preset: applyNetworkConditions(preset, true)
PresetRequest(name) ==
    /\ CanAct /\ ServerListening
    /\ clock' = clock + 1
    /\ ApplyNetworkConditions(name, clock')
    /\ UNCHANGED <<tabs, pageSignals, setups, trackedPages, pages,
                   currentPageId, recSessions, isRecording,
                   browserClosedCallback, cliPc, disconnect, timers, resolved,
                   stopPc, written, exited, loadState, loadCalls, requests>>
    /\ EngineIdle

\* recorder.ts 769-798: an applyNetworkConditions message with conditions
CustomRequest(conditions) ==
    /\ CanAct /\ ServerListening
    /\ clock' = clock + 1
    /\ ApplyCustom(conditions, clock')
    /\ UNCHANGED <<tabs, pageSignals, setups, trackedPages, pages,
                   currentPageId, recSessions, isRecording,
                   browserClosedCallback, cliPc, disconnect, timers, resolved,
                   stopPc, written, exited, loadState, loadCalls, requests>>
    /\ EngineIdle

\* recorder.ts 799-817: a networkConditionsChanged message (preset "" is a
\* message without one)
ChangedNotice(name, conditions) ==
    /\ CanAct /\ ServerListening
    /\ clock' = clock + 1
    /\ currentNetworkConditions' = conditions
    /\ currentNetworkPreset' = (IF name = "" THEN "Custom" ELSE name)
    /\ RecordChange(conditions, clock')
    /\ UNCHANGED <<tabs, pageSignals, setups, trackedPages, pages,
                   currentPageId, recSessions, isRecording,
                   browserClosedCallback, cliPc, disconnect, timers, resolved,
                   stopPc, written, exited>>
    /\ ReplayIdle

StopMarksLate(rec) == rec

\* recorder.ts 671-672: this.isRecording = false, before the save
StopMarks(rec) == FALSE

\* recorder.ts 668-675, 634-653 and cli.ts 111-117, 136-143: the call of
\* stopRecording by caller c up to fs.writeFile; on "" the caller calls
\* process.exit(0)
StopRecording(c) ==
    IF ~isRecording
    THEN /\ stopPc' = [stopPc EXCEPT ![c] = "empty"]
         /\ exited' = TRUE
         /\ UNCHANGED isRecording
    ELSE /\ stopPc' = [stopPc EXCEPT ![c] = "write"]
         /\ isRecording' = StopMarks(isRecording)
         /\ UNCHANGED exited

\* cli.ts 107-128: Ctrl+C
Sigint ==
    /\ CanAct /\ ServerListening /\ stopPc["sigint"] = "none"
    /\ clock' = clock + 1
    /\ StopRecording("sigint")
    /\ UNCHANGED <<tabs, pageSignals, setups, trackedPages, pages,
                   currentPageId, recSessions, browserClosedCallback,
                   currentNetworkPreset, currentNetworkConditions, recEvents,
                   cliPc, disconnect, timers, resolved, written>>
    /\ ReplayIdle

\* cli.ts 133-143: browserClosedPromise is resolved, the record action goes on
MainResumes ==
    /\ cliPc = "waiting" /\ resolved /\ ~exited
    /\ cliPc' = "stopping"
    /\ StopRecording("main")
    /\ UNCHANGED <<tabs, pageSignals, setups, trackedPages, pages,
                   currentPageId, recSessions, browserClosedCallback,
                   currentNetworkPreset, currentNetworkConditions, recEvents,
                   clock, disconnect, timers, resolved, written>>
    /\ ReplayIdle

\* recorder.ts 653, 677-686: the file is written; stopRecording closes the
\* browser if it has one, else returns, and the caller exits (cli.ts
\* 119-126, 145-151)
WriteDone(c) ==
    /\ stopPc[c] = "write" /\ ~exited
    /\ written' = written + 1
    /\ IF hasBrowser
       THEN /\ stopPc' = [stopPc EXCEPT ![c] = "closing"]
            /\ IF disconnect.pc = "none"
               THEN BrowserGone(clock)
               ELSE UNCHANGED <<tabs, setups, disconnect>>
            /\ UNCHANGED exited
       ELSE /\ stopPc' = [stopPc EXCEPT ![c] = "done"]
            /\ exited' = TRUE
            /\ UNCHANGED <<tabs, setups, disconnect>>
    /\ UNCHANGED <<pageSignals, trackedPages, pages, currentPageId,
                   recSessions, isRecording, browserClosedCallback,
                   currentNetworkPreset, currentNetworkConditions, recEvents,
                   clock, cliPc, timers, resolved>>
    /\ ReplayIdle

\* recorder.ts 679-686, cli.ts 119-126, 145-151: browser.close() settles,
\* stopRecording returns the path, the caller renames the file and exits
CloseDone(c) ==
    /\ stopPc[c] = "closing" /\ ~exited
    /\ stopPc' = [stopPc EXCEPT ![c] = "done"]
    /\ exited' = TRUE
    /\ UNCHANGED <<tabs, pageSignals, setups, trackedPages, pages,
                   currentPageId, recSessions, isRecording,
                   browserClosedCallback, currentNetworkPreset,
                   currentNetworkConditions, recEvents, clock, cliPc,
                   disconnect, timers, resolved, written>>
    /\ ReplayIdle

\* cli.ts 82-96: the record action is about to call startRecording
InitCapture ==
    /\ events = <<>> /\ speed = 10 /\ instr = AllHooks
    /\ urlOverride = NoUrl /\ navError = "other"
    /\ InitEngine
    /\ newConditions = Conditions(FALSE, -1, -1, 0)
    /\ presetName = NoLabel
    /\ compiled = NotCompiled
    /\ hasBrowser \in BOOLEAN
    /\ InitRecorder

Setup ==
    \/ StartRecording
    \/ RegisterPage
    \/ \E t \in pageSignals : PageSignal(t)
    \/ \E k \in DOMAIN setups : SetupTitle(k)
    \/ \E k \in DOMAIN setups : SetupSession(k)
    \/ \E k \in DOMAIN setups : SetupScript(k)

Closing ==
    \/ \E t \in DOMAIN tabs : CloseTab(t)
    \/ \E k \in DOMAIN setups : CloseHandler(k)
    \/ \E k \in DOMAIN setups : CloseResume(k)
    \/ TimerFires

\* tabs are opened, used and closed
NextTrack ==
    \/ Setup
    \/ OpenTab
    \/ \E t \in DOMAIN tabs, kind \in UserKinds : UserEvent(t, kind)
    \/ Closing

SpecTrack == InitCapture /\ [][NextTrack]_vars

\* network-control requests arrive while tabs are opened
NextControl ==
    \/ Setup
    \/ OpenTab
    \/ \E name \in RequestedPresets : PresetRequest(name)
    \/ CustomRequest(SlowLink)
    \/ ChangedNotice("", SlowLink)

SpecControl == InitCapture /\ [][NextControl]_vars

\* the session ends: tabs are closed, the browser goes away, Ctrl+C
NextEnd ==
    \/ Setup
    \/ Closing
    \/ BrowserClose
    \/ Disconnected
    \/ DisconnectedResume
    \/ Sigint
    \/ MainResumes
    \/ \E c \in Callers : WriteDone(c)
    \/ \E c \in Callers : CloseDone(c)

SpecEnd == InitCapture /\ [][NextEnd]_vars


IsNetworkEvent(e) ==
    e.type \in {"network_conditions_initial", "network_conditions_change"}

NetworkEvents == SelectSeq(recEvents, IsNetworkEvent)

(***************************************************************************)
(* C21: no network_conditions_change event is recorded whose conditions    *)
(* equal those of the network-conditions event recorded before it          *)
(* (equal conditions differ by nothing, so by less than any tolerance).    *)
(***************************************************************************)
C21_ChangeOnlyWhenDifferent ==
    LET N == NetworkEvents
    IN  \A k \in 2..Len(N) :
          N[k].type = "network_conditions_change"
            => N[k].conditions # N[k - 1].conditions

\* the other part of C21: the first network-conditions event recorded is
\* a network_conditions_initial
FirstIsInitial ==
    NetworkEvents # <<>> => NetworkEvents[1].type = "network_conditions_initial"

SetupsOf(t) == {k \in DOMAIN setups : setups[k].tab = t}

EventsOf(type, t) ==
    SelectSeq(recEvents, LAMBDA e : e.type = type /\ e.tab = t)

IsUserEvent(e) == e.type \in UserKinds

\* setupPageTracking call k has registered its listeners
Listens(k) == setups[k].pc \in {"script", "done"}

(***************************************************************************)
(* C22: whatever the order of the context's "page" signal and of           *)
(* startRecording's registration, setupPageTracking is called at most      *)
(* once for an open tab; a tab has at most one PageInfo (one pageId) and   *)
(* at most one newtab event, and exactly one newtab event once its         *)
(* listeners are registered; and an action of the user in a tab is         *)
(* recorded once, not once per registration.                               *)
(***************************************************************************)
C22_TrackedOnce ==
    /\ \A t \in TabsOpen : Cardinality(SetupsOf(t)) <= 1
    /\ \A t \in DOMAIN tabs :
         /\ Len(SelectSeq(pages, LAMBDA e : e.tab = t)) <= 1
         /\ Len(EventsOf("newtab", t)) <= 1
         /\ Cardinality({k \in SetupsOf(t) : setups[k].listening}) <= 1
    /\ \A k \in DOMAIN setups :
         Listens(k) =>
           /\ setups[k].listening
           /\ Len(EventsOf("newtab", setups[k].tab)) = 1
           /\ EventsOf("newtab", setups[k].tab)[1].dataPageId = k
    /\ \A a, b \in DOMAIN recEvents :
         (a < b /\ IsUserEvent(recEvents[a]) /\ IsUserEvent(recEvents[b]))
           => recEvents[a].timestamp # recEvents[b].timestamp

\* the setup of the first tab was started by the "page" signal and
\* startRecording's registration found the tab tracked; a second tab is
\* set up as well, and a click in the first tab is recorded once
C22_Witness ==
    /\ cliPc = "waiting" /\ Len(setups) = 2
    /\ setups[1].tab = 1 /\ ~setups[1].awaited /\ setups[1].pc = "done"
    /\ setups[2].pc = "done"
    /\ Len(EventsOf("newtab", 1)) = 1 /\ Len(EventsOf("newtab", 2)) = 1
    /\ Len(EventsOf("click", 1)) = 1

(***************************************************************************)
(* C23: the recorded events have non-decreasing timestamps.                *)
(***************************************************************************)
C23_NonDecreasing ==
    \A k \in 1..(Len(recEvents) - 1) :
      recEvents[k].timestamp <= recEvents[k + 1].timestamp

\* the close of a tab was handled after a later click in the other tab
\* had been recorded: the closetab event follows the click and carries the
\* time of its append, not the time the tab closed
C23_Witness ==
    \E a, b \in DOMAIN recEvents :
      /\ a < b /\ recEvents[a].type = "click" /\ recEvents[b].type = "closetab"
      /\ setups[recEvents[b].dataPageId].closedAt < recEvents[a].timestamp
      /\ recEvents[b].timestamp = recEvents[a].timestamp

(***************************************************************************)
(* C24: every event that comes from a tab (its newtab and initial          *)
(* network conditions, its navigations, the actions of the user in it,     *)
(* its closetab) is recorded with the pageId of that tab.                  *)
(***************************************************************************)
C24_OwnPageId ==
    \A k \in DOMAIN recEvents :
      recEvents[k].tab # 0 => recEvents[k].pageId \in SetupsOf(recEvents[k].tab)

CloseStarts(k) == setups[k].closing = "pending" /\ setups'[k].closing # "pending"

CloseDecides(k) == setups[k].closing # "done" /\ setups'[k].closing = "done"

ClosetabAppended(k) ==
    /\ Len(recEvents') = Len(recEvents) + 1
    /\ recEvents'[Len(recEvents')].type = "closetab"
    /\ recEvents'[Len(recEvents')].dataPageId = k

HasInfo(pgs, k) == \E j \in DOMAIN pgs : pgs[j].id = k

C27_WitnessRemains ==
    /\ Len(tabs) = 2 /\ tabs[2] = "open" /\ Len(pages) = 1
    /\ \E k \in DOMAIN setups :
         setups[k].tab = 1 /\ setups[k].closing = "done"
    /\ timers = 0 /\ ~resolved /\ browserClosedCallback
    /\ currentPageId = pages[1].id

\* the stopRecording calls that went past the isRecording test
Saving == {c \in Callers : stopPc[c] \in {"write", "closing", "done"}}

(***************************************************************************)
(* C25: when the record command has exited after a recording session was   *)
(* started (startRecording returned), the recording has been written.      *)
(***************************************************************************)
C25_PersistedBeforeExit ==
    (exited /\ cliPc # "failed") => written >= 1

(***************************************************************************)
(* C26: the recording is written at most once in a session: at most one    *)
(* stopRecording call goes past the isRecording test, every other call     *)
(* returns "" and writes nothing, whatever the order and overlap of        *)
(* Ctrl+C, the last-tab-closed timer and the browser's disconnection.      *)
(***************************************************************************)
C26_WrittenAtMostOnce ==
    /\ written <= 1
    /\ Cardinality(Saving) <= 1
    /\ written = 1 => Saving # {}
    /\ \A c \in Callers : stopPc[c] = "empty" => exited

\* Ctrl+C came first and its call wrote the file; closing the browser
\* then ended the wait of the record action, whose call returned ""
C26_Witness ==
    /\ stopPc["sigint"] = "closing" /\ stopPc["main"] = "empty"
    /\ written = 1 /\ exited

\* the last tab was closed and, while the record action's call was
\* writing, Ctrl+C came: its call returned ""
C26_WitnessOverlap ==
    /\ stopPc["main"] = "write" /\ stopPc["sigint"] = "empty"
    /\ written = 0 /\ exited

\* the successful newCDPSession calls made for tab h
SessionsOn(h) ==
    {k \in Positions : /\ IsEventCall(log[k]) /\ log[k].op = "newCDPSession"
                       /\ log[k].ok /\ log[k].pg = h}

(***************************************************************************)
(* C31: at most one debug session is created for a tab during a run, and   *)
(* the dispatch of a network-conditions event never throws (a failure to   *)
(* create the session or to apply the conditions stays inside the event).  *)
(* The conditions an emulateNetworkConditions call sends are those of the  *)
(* event it is logged for.                                                 *)
(***************************************************************************)
C31_OneSessionPerTab ==
    /\ \A h \in 1..Len(events) : Cardinality(SessionsOn(h)) <= 1
    /\ \A a \in Positions :
         (IsDispatch(log[a]) /\ events[log[a].ev].type \in NetworkTypes)
           => log[a].ok


(***************************************************************************)
(* The "load" handler of a tracked tab                                     *)
(***************************************************************************)

MaxLoads == 3

\* recorder.ts 293: (currentTime - lastLoadTime) > 500
RefreshGapMs == 500

\* Date.now() when the session starts: far more than the refresh gap
\* after the epoch
SessionStart == 2 * RefreshGapMs

BlankUrl == "about:blank"

\* what a tab loads: a site, the blank page it started with, and the
\* browser's error page
LoadUrls == {BlankUrl, "https://a.test/", "chrome-error://chromewebdata/"}

\* milliseconds between two load signals of a tab
LoadGaps == {100, 600}

\* recorder.ts 288: currentUrl.startsWith("chrome-error://")
IsChromeError(url) == url = "chrome-error://chromewebdata/"

\* recorder.ts 279-281: let lastUrl = page.url(); let isInitialNavigation =
\* true; let lastLoadTime = 0
InitLoadState ==
    [lastUrl |-> BlankUrl, isInitialNavigation |-> TRUE, lastLoadTime |-> 0]

LoadStateOf(k) ==
    IF k \in DOMAIN loadState THEN loadState[k] ELSE InitLoadState

SetLoadState(k, st) ==
    [j \in 1..Len(setups) |-> IF j = k THEN st ELSE LoadStateOf(j)]

\* recorder.ts 293: const isRefresh = currentUrl === lastUrl &&
\*   (currentTime - lastLoadTime) > 500
IsRefresh(currentUrl, currentTime, st) ==
    currentUrl = st.lastUrl /\ (currentTime - st.lastLoadTime) > RefreshGapMs

\* recorder.ts 294: const isNewNavigation = currentUrl !== lastUrl
IsNewNavigation(currentUrl, st) == currentUrl # st.lastUrl

\* recorder.ts 314: navigationType
NavigationType(st, isRefresh) ==
    IF st.isInitialNavigation THEN "initial"
    ELSE IF isRefresh THEN "refresh" ELSE "hard"

\* the calls of the handler of setup k that have appended their event, and
\* the newest of them
Recorded(k) ==
    {c \in DOMAIN loadCalls : loadCalls[c].k = k /\ loadCalls[c].appended > 0}

LastRecordedUrl(k) ==
    IF Recorded(k) = {} THEN BlankUrl
    ELSE LET c == CHOOSE c \in Recorded(k) :
                    \A d \in Recorded(k) :
                       loadCalls[d].appended <= loadCalls[c].appended
         IN  loadCalls[c].url

\* the load signals tab k had so far, and the time of the newest (0: none)
LoadsOf(k) == {c \in DOMAIN loadCalls : loadCalls[c].k = k}

PreviousLoad(k) ==
    IF LoadsOf(k) = {} THEN 0
    ELSE LET c == CHOOSE c \in LoadsOf(k) : \A d \in LoadsOf(k) : d <= c
         IN  loadCalls[c].time

\* recorder.ts 283-296, 323: the tab of setup k finishes loading url, gap
\* milliseconds after the previous signal; the handler runs up to
\* await page.title(), or to its end when it has nothing to record.
\* lastRecorded, previousLoad and firstRecorded are what the recording and
\* the tab's history say at the signal, not values the handler reads.
Load(k, url, gap) ==
    /\ ~exited /\ Len(loadCalls) < MaxLoads
    /\ setups[k].listening /\ tabs[setups[k].tab] = "open"
    /\ clock' = clock + gap
    /\ LET st == LoadStateOf(k)
           currentTime == SessionStart + clock'
           isRefresh == IsRefresh(url, currentTime, st)
           records == /\ ~IsChromeError(url)
                      /\ (isRefresh \/ IsNewNavigation(url, st))
           call == [k |-> k, url |-> url, time |-> currentTime,
                    isRefresh |-> isRefresh,
                    pc |-> IF records THEN "title" ELSE "done",
                    appended |-> 0, navigationType |-> "",
                    lastRecorded |-> LastRecordedUrl(k),
                    previousLoad |-> PreviousLoad(k),
                    firstRecorded |-> FALSE]
       IN  /\ loadCalls' = Append(loadCalls, call)
           /\ loadState' =
                IF records \/ IsChromeError(url) THEN loadState
                ELSE SetLoadState(k, [st EXCEPT !.lastLoadTime = currentTime])
    /\ UNCHANGED <<tabs, pageSignals, setups, trackedPages, pages,
                   currentPageId, recSessions, isRecording,
                   browserClosedCallback, currentNetworkPreset,
                   currentNetworkConditions, recEvents, cliPc, disconnect,
                   timers, resolved, stopPc, written, exited, sent, requests>>
    /\ EngineIdle

\* recorder.ts 301-323: page.title() of call c settles (either way); the
\* navigation event is appended and the three variables are updated
LoadTitle(c) ==
    /\ ~exited /\ loadCalls[c].pc = "title"
    /\ LET call == loadCalls[c]
           st == LoadStateOf(call.k)
           type == NavigationType(st, call.isRefresh)
           ev == RecEv("navigation", setups[call.k].tab, call.k, NoConditions,
                       clock)
       IN  /\ recEvents' = AddEvent(recEvents, currentPageId, clock, ev)
           /\ loadCalls' = [loadCalls EXCEPT
                              ![c].pc = "done",
                              ![c].appended = Len(recEvents) + 1,
                              ![c].navigationType = type,
                              ![c].firstRecorded = Recorded(call.k) = {}]
           /\ loadState' = SetLoadState(call.k,
                              [lastUrl |-> call.url,
                               isInitialNavigation |-> FALSE,
                               lastLoadTime |-> call.time])
    /\ UNCHANGED <<tabs, pageSignals, setups, trackedPages, pages,
                   currentPageId, recSessions, isRecording,
                   browserClosedCallback, currentNetworkPreset,
                   currentNetworkConditions, clock, cliPc, disconnect,
                   timers, resolved, stopPc, written, exited, sent, requests>>
    /\ EngineIdle

\* one tab is tracked and loads pages
NextLoad ==
    \/ Setup
    \/ \E k \in DOMAIN setups, url \in LoadUrls, gap \in LoadGaps :
         Load(k, url, gap)
    \/ \E c \in DOMAIN loadCalls : LoadTitle(c)

SpecLoad == InitCapture /\ [][NextLoad]_vars

\* the calls of the handler that have run to their end
LoadsDone == {c \in DOMAIN loadCalls : loadCalls[c].pc = "done"}

\* what the statement lets a load signal record
MayRecord(call) ==
    /\ ~IsChromeError(call.url)
    /\ \/ call.url # call.lastRecorded
       \/ call.time - call.previousLoad > RefreshGapMs

ExpectedType(call) ==
    IF call.firstRecorded THEN "initial"
    ELSE IF call.url = call.lastRecorded THEN "refresh" ELSE "hard"

(* C32: a load signal of a tab appends a navigation event iff the loaded
   URL is not a chrome-error:// URL and it either differs from the tab's
   last recorded URL or is the same URL more than 500 ms after the tab's
   previous load; the event's navigationType is initial for the tab's first
   recorded navigation, otherwise refresh for a same-URL load and hard for
   a new URL *)
C32_NavigationRecorded ==
    \A c \in LoadsDone :
       /\ (loadCalls[c].appended > 0) <=> MayRecord(loadCalls[c])
       /\ loadCalls[c].appended > 0
            => loadCalls[c].navigationType = ExpectedType(loadCalls[c])

(***************************************************************************)
(* The extension's background script (src/chrome-extension/background.js)  *)
(***************************************************************************)

\* background.js 10-42, in the order of the object literal
ExtensionPresets ==
    << [name |-> "No throttling",
        conditions |-> Conditions(FALSE, -1, -1, HalfMs(0))],
       [name |-> "Offline",
        conditions |-> Conditions(TRUE, 0, 0, HalfMs(0))],
       [name |-> "Slow 3G",
        conditions |-> Conditions(FALSE, 50 * 1024, 50 * 1024, HalfMs(400))],
       [name |-> "Fast 3G",
        conditions |-> Conditions(FALSE, 188 * 1024, 86 * 1024, HalfMs(150))],
       [name |-> "Regular 4G",
        conditions |-> Conditions(FALSE, 500 * 1024, 375 * 1024, HalfMs(50))] >>

ExtensionNames == {ExtensionPresets[k].name : k \in DOMAIN ExtensionPresets}

ExtensionPreset(name) ==
    ExtensionPresets[CHOOSE k \in DOMAIN ExtensionPresets :
                       ExtensionPresets[k].name = name].conditions

\* background.js 97-110: detectPreset
DetectPreset(conditions) ==
    LET hits == SelectSeq(ExtensionPresets,
                   LAMBDA p : /\ SameButLatency(p.conditions, conditions)
                              /\ Abs(p.conditions.latency - conditions.latency)
                                   < HalfMs(10))
    IN  IF Len(hits) > 0 THEN hits[1].name ELSE "Custom"

\* background.js 113-135: the applyNetworkConditions message for a preset
\* name of the table / for a conditions object
PresetMessage(name) ==
    [preset |-> name, conditions |-> ExtensionPreset(name)]

ConditionsMessage(conditions) ==
    [preset |-> DetectPreset(conditions), conditions |-> conditions]

\* the sessions of the tabs that are open
OpenSessions == {k \in recSessions : tabs[setups[k].tab] = "open"}

\* recorder.ts 758-798: the handler of an applyNetworkConditions message
OnApplyMessage(msg, now) ==
    IF msg.preset # ""
    THEN ApplyNetworkConditions(msg.preset, now)
    ELSE ApplyCustom(msg.conditions, now)

\* background.js 146-156, 113-142 and recorder.ts 758-798: a
\* setNetworkConditions request of the extension's UI (asked: the preset
\* name, "" for a conditions object) becomes msg and is handled by the
\* recorder.  requests keeps what was asked and what the recorder did.
ExtensionRequest(asked, msg) ==
    /\ CanAct /\ ServerListening
    /\ clock' = clock + 1
    /\ OnApplyMessage(msg, clock')
    /\ requests' = Append(requests,
                      [asked |-> asked, preset |-> msg.preset,
                       conditions |-> msg.conditions,
                       recording |-> isRecording,
                       sessions |-> OpenSessions,
                       sentAfter |-> sent',
                       inForce |-> currentNetworkConditions',
                       event |-> IF Len(recEvents') > Len(recEvents)
                                 THEN Len(recEvents') ELSE 0])
    /\ UNCHANGED <<tabs, pageSignals, setups, trackedPages, pages,
                   currentPageId, recSessions, isRecording,
                   browserClosedCallback, cliPc, disconnect, timers, resolved,
                   stopPc, written, exited, loadState, loadCalls>>
    /\ EngineIdle

\* the extension asks for its presets and for conditions of its own while
\* tabs are opened
NextExtension ==
    \/ Setup
    \/ OpenTab
    \/ \E name \in ExtensionNames : ExtensionRequest(name, PresetMessage(name))
    \/ ExtensionRequest("", ConditionsMessage(SlowLink))

SpecExtension == InitCapture /\ [][NextExtension]_vars

(* C33: every preset the extension can request is a preset of the
   recorder's table with the same conditions: the request is not rejected
   as unknown, and the conditions the recorder has in force after it are
   the extension's *)
C33_PresetTablesAgree ==
    \A r \in DOMAIN requests :
       requests[r].asked # ""
         => /\ requests[r].preset \in PresetNames
            /\ requests[r].inForce = requests[r].conditions

(* C34: custom conditions requested through the extension while recording
   are sent to the session of every open tab and recorded as a
   network_conditions_change event with those conditions *)
C34_CustomApplied ==
    \A r \in DOMAIN requests :
       (requests[r].asked = "" /\ requests[r].recording)
         => /\ \A k \in requests[r].sessions :
                 /\ k \in DOMAIN requests[r].sentAfter
                 /\ requests[r].sentAfter[k] = requests[r].conditions
            /\ requests[r].event > 0
            /\ recEvents[requests[r].event].type = "network_conditions_change"
            /\ recEvents[requests[r].event].conditions = requests[r].conditions

\* the conditions a session emulates: the last ones sent to it, none
\* (no throttling) before
Emulated(k) == IF k \in DOMAIN sent THEN sent[k] ELSE DefaultConditions

(* C39: in every state, when currentNetworkPreset names a preset of the
   table, currentNetworkConditions are that preset's conditions and the
   session of every open tab has been sent them *)
C39_NetworkStateConsistent ==
    currentNetworkPreset \in PresetNames
      => /\ currentNetworkConditions = PresetNamed(currentNetworkPreset)
         /\ \A k \in OpenSessions : Emulated(k) = currentNetworkConditions

(***************************************************************************)
(* After the recording is written                                          *)
(***************************************************************************)

\* the session is used and then ended by Ctrl+C or by the browser going
\* away on its own account; no tab is closed by the user, so that every
\* closetab event comes from the end of the browser
NextStop ==
    \/ Setup
    \/ \E t \in DOMAIN tabs : UserEvent(t, "click")
    \/ PresetRequest("Fast 3G")
    \/ \E k \in DOMAIN setups : CloseHandler(k)
    \/ \E k \in DOMAIN setups : CloseResume(k)
    \/ TimerFires
    \/ Disconnected
    \/ DisconnectedResume
    \/ Sigint
    \/ MainResumes
    \/ \E c \in Callers : WriteDone(c)
    \/ \E c \in Callers : CloseDone(c)

SpecStop == InitCapture /\ [][NextStop]_vars

\* the events a step appends
Appended == SubSeq(recEvents', Len(recEvents) + 1, Len(recEvents'))

(* C35 as stated: once stopRecording has written the recording, no callback
   appends an event to the recording's event log *)
C35_NothingAppendedAfterWrite ==
    [][written >= 1 => recEvents' = recEvents]_vars

(* C35: once stopRecording has written the recording, the file is not
   written again and a network-control message appends no event; the only
   events the log still receives come from the callbacks of tabs, which do
   not test isRecording *)
C35_WrittenOnceNoControlEvents ==
    [][written >= 1
         => /\ written' = written
            /\ \A j \in DOMAIN Appended : ~IsNetworkEvent(Appended[j])]_vars

\* Ctrl+C wrote the recording, closing the browser closed the tab, and the
\* tab's close handler appended closetab after the write
C35_Witness ==
    /\ written = 1
    /\ \E j \in DOMAIN recEvents : recEvents[j].type = "closetab"

(***************************************************************************)
(* tryCompileInstrumentation (replay.ts 35-83).  A function source also    *)
(* says how many parameters it declares (arity) and what it does when      *)
(* called without argument (onNone).                                       *)
(***************************************************************************)

\* what a call of a function source can do
TestResults ==
    { [res |-> "throw"], [res |-> "prim"], Gives({}), Gives({"setup"}),
      Gives(HookNames) }

CompileSources ==
    { [shape |-> "syntaxError"], [shape |-> "falsy"], [shape |-> "number"] }
      \cup { [shape |-> "object", names |-> S] : S \in SUBSET HookNames }
      \cup { [shape |-> "factory", arity |-> n, onMock |-> m, onNone |-> z,
              onReal |-> m] :
               n \in {0, 1}, m \in TestResults, z \in TestResults }

TestCallMock(value) == value.onMock

\* replay.ts 45: value.length >= 1 ? value({ mock: true }) : value()
TestCall(value) == IF value.arity >= 1 THEN value.onMock ELSE value.onNone

\* replay.ts 46-53, 62-69: the value is an object with a function under
\* one of the four names
HasHook(r) == r.res = "hooks" /\ r.names # {}

Compiled(ok) == [done |-> TRUE, ok |-> ok, error |-> ~ok]

\* replay.ts 40-82
TryCompileInstrumentation(src) ==
    IF src.shape = "syntaxError" THEN Compiled(FALSE)
    ELSE IF src.shape = "factory" /\ TestCall(src).res = "throw"
    THEN Compiled(TRUE)
    ELSE IF src.shape = "factory" /\ HasHook(TestCall(src))
    THEN Compiled(TRUE)
    ELSE IF src.shape = "object" /\ src.names # {}
    THEN Compiled(TRUE)
    ELSE Compiled(FALSE)

\* compiled = tryCompileInstrumentation(instr)
Compile ==
    /\ ~compiled.done
    /\ compiled' = TryCompileInstrumentation(instr)
    /\ UNCHANGED <<inputs, newConditions, presetName, pc, i, delay, result,
                   rejected, returned, browser, context, browserOpen, ctxOpen,
                   pageMap, page, closedPages, pageUrls, cdpSessions, fi,
                   pendingHooksValue, pendingHooks, finalResults, stopped, spc,
                   si, faults, stops, log, capture>>

InitCompile ==
    /\ events = <<>> /\ speed = 10
    /\ instr \in CompileSources
    /\ urlOverride = NoUrl /\ navError = "other"
    /\ InitEngine
    /\ RecorderIdle

NextCompile == Compile

SpecCompile == InitCompile /\ [][NextCompile]_vars

\* the shapes the statement accepts, the page handle being the one of the
\* test call
AcceptedShape(src) ==
    \/ src.shape = "factory" /\ HasHook(src.onMock)
    \/ src.shape = "object" /\ src.names # {}

\* the shapes the test call accepts
AcceptedByTest(src) ==
    \/ /\ src.shape = "factory"
       /\ LET r == IF src.arity >= 1 THEN src.onMock ELSE src.onNone
          IN  r.res = "throw" \/ HasHook(r)
    \/ src.shape = "object" /\ src.names # {}

(* C36 as stated: ok = true exactly when the value is a function whose
   result, called with a page handle, is an object with at least one hook,
   or an object with at least one hook; otherwise ok = false with an error *)
C36_OkIffAcceptedShape ==
    compiled.done
      => /\ compiled.ok <=> AcceptedShape(instr)
         /\ ~compiled.ok => compiled.error

(* C36: ok = true exactly when the value is an object with at least one
   hook, or a function whose test call (with a mock page handle, without
   argument when it declares no parameter) throws or returns an object with
   at least one hook; otherwise ok = false with an error *)
C36_OkIffTestCallAccepts ==
    compiled.done
      => /\ compiled.ok <=> AcceptedByTest(instr)
         /\ ~compiled.ok => compiled.error

\* a function that throws when called with the mock handle is reported ok
C36_Witness ==
    /\ compiled.done /\ compiled.ok
    /\ instr.shape = "factory" /\ instr.arity = 1
    /\ instr.onMock.res = "throw"

\* a source that does not evaluate is reported with an error
C36_WitnessError ==
    /\ compiled.done /\ ~compiled.ok /\ compiled.error
    /\ instr.shape = "syntaxError"

\* the hooks that are handed the tab of an event or of the end of the run
TabHooks == {"onBeforeEvent", "onAfterEvent", "onComplete"}

(* C37: no hook is invoked with a tab handle that is already closed: the
   page handed to onBeforeEvent, onAfterEvent and onComplete has not been
   closed by an earlier closetab event nor by the teardown of stop() *)
C37_HooksGetOpenTab ==
    [][\A k \in DOMAIN Added :
         (Added[k].k = "hook" /\ Added[k].op \in TabHooks)
           => Added[k].pg \notin closedPages]_vars

\* the newtab event of pageId p is at position j of the recording
IsNewtabOf(j, p) ==
    recEvents[j].type = "newtab" /\ recEvents[j].dataPageId = p

(* C38: in the recording, the newtab event of a tab precedes every other
   event that carries the tab's pageId, its network_conditions_initial
   included *)
C38_NewtabFirst ==
    \A j \in DOMAIN recEvents :
       (recEvents[j].pageId # 0 /\ recEvents[j].type # "newtab")
         => \E n \in 1..(j - 1) : IsNewtabOf(n, recEvents[j].pageId)

(***************************************************************************)
(* Session scenarios in which the tab of a pageId changes: the pageId is   *)
(* used by a second newtab, with and without the first tab being closed,   *)
(* and the first tracked tab is closed and another one is opened.          *)
(***************************************************************************)
ReuseScenarios ==
    { << Ev("newtab", "p1", NoData),
         Ev("network_conditions_initial", "p1", NetData(FALSE)),
         Ev("newtab", "p1", NoData),
         Ev("network_conditions_initial", "p1", NetData(FALSE)) >>,
      << Ev("newtab", "p1", NoData),
         Ev("network_conditions_initial", "p1", NetData(FALSE)),
         Ev("closetab", "p1", NoData),
         Ev("newtab", "p1", NoData),
         Ev("network_conditions_change", "p1", NetData(TRUE)) >>,
      << Ev("newtab", "p1", NoData),
         Ev("network_conditions_change", "", NetData(TRUE)),
         Ev("closetab", "p1", NoData),
         Ev("newtab", "p2", NoData),
         Ev("network_conditions_change", "", NetData(FALSE)) >> }

InitReuse ==
    /\ \/ \E n \in 0..MaxScenario : \E sh \in [1..n -> SessionShapes] :
            events = Stamped(sh, EvenStamps(n))
       \/ \E sh \in ReuseScenarios : events = Stamped(sh, EvenStamps(Len(sh)))
    /\ speed = 10
    /\ instr = AllHooks
    /\ urlOverride = NoUrl
    /\ navError = "other"
    /\ InitEngine
    /\ RecorderIdle

SpecReuse == InitReuse /\ [][Next]_vars

(* C40: the session through which a network-conditions event is applied is
   attached to the tab resolved for that event, never to a closed tab or to
   another tab, also after a pageId is reused by a later newtab and for
   events without pageId after the first tracked tab has changed *)
C40_SessionOfResolvedTab ==
    [][(DispatchStep /\ events[i].type \in NetworkTypes)
         => \A k \in DOMAIN AddedCalls :
              /\ AddedCalls[k].pg = ResolvePage(events[i], pageMap)
              /\ (stops = 0 => AddedCalls[k].pg \notin closedPages)]_vars
====
